---------------------------- MODULE Spec2Model ----------------------------
(***************************************************************************)
(* Hercules DJ Console driver (src/mixxx/src/herculeslinux.cpp).           *)
(*                                                                         *)
(* The file holds two builds of class HerculesLinux.  The libdjconsole     *)
(* build (lines 64-534) receives events through the callback               *)
(* consoleEvent(first, second) and drains the jog accumulators in run().   *)
(* The evdev build (lines 537-1152) reads struct input_event records in    *)
(* getNextEvent() and decodes the pitch knobs with the revised             *)
(* PitchChange().  Both builds use the same member variables; InitDjc and  *)
(* InitEvdev are the states their constructors leave, and `build` says     *)
(* which of the two the preprocessor selected.                             *)
(*                                                                         *)
(* Sink writes (sendEvent / sendButtonEvent) of the handler that ran last  *)
(* are kept in `sent`.  A real argument x of sendEvent is kept exactly as  *)
(* the integer 4*x (all arguments the driver computes are multiples of     *)
(* 1/4); a bool argument of sendButtonEvent is kept as 1 / 0.              *)
(*                                                                         *)
(* libdjconsole control codes (LEFT_JOG, ...) are symbolic in the source;  *)
(* they are kept as their names, and the literal case labels 100..103 as   *)
(* their decimal text.                                                     *)
(*                                                                         *)
(* Class Rotary (rotary.h) is outside the source tree: the value returned  *)
(* by Rotary::filter / Rotary::fillBuffer is a nondeterministic choice     *)
(* from FilterOut.  Runs that start with rotaryBuf = RotaryIdle follow the  *)
(* samples in the two buffers, and the choice is among the values a moving *)
(* average over the buffer can have (RotaryReturn); runs that start with   *)
(* rotaryBuf = NoHistory keep no samples and allow every value.             *)
(***************************************************************************)
EXTENDS Integers, Sequences, FiniteSets

VARIABLES
    m_iHerculesHeadphonesSelection, \* headphone selector state
    m_bHeadphoneLeft,               \* left headphone enable
    m_bHeadphoneRight,              \* right headphone enable
    m_dJogLeftOld,                  \* djc: previous raw left jog value (-1 = none)
    m_dJogRightOld,                 \* djc: previous raw right jog value (-1 = none)
    m_iJogLeft,                     \* djc: left jog accumulator; evdev: previous raw value
    m_iJogRight,                    \* djc: right jog accumulator; evdev: previous raw value
    m_iPitchLeft,                   \* previous pitch value, left
    m_iPitchRight,                  \* previous pitch value, right
    m_iPitchOffsetLeft,             \* pitch offset, left
    m_iPitchOffsetRight,            \* pitch offset, right
    m_dLeftVolumeOld,               \* evdev: 4 * m_dLeftVolumeOld
    m_dRightVolumeOld,              \* evdev: 4 * m_dRightVolumeOld
    leds,                           \* set of LED ids that are lit
    calibLeft,                      \* calibration of m_pRotaryLeft (0 = Rotary's default)
    calibRight,                     \* calibration of m_pRotaryRight
    leftJogProcessing,              \* local of run() (djc)
    rightJogProcessing,             \* local of run() (djc)
    runPc,                          \* position of the thread run()
    build,                          \* "libdjconsole" or "evdev": what __LIBDJCONSOLE__ selects
    m_iFd,                          \* evdev: descriptor of the event device (-1 = none)
    fillArg,                        \* djc: argument of the fillBuffer call run() is in
    jogLost,                        \* djc: left deltas run() overwrote without passing them to fillBuffer
    filterCalls,                    \* calls of Rotary::filter / fillBuffer the last step made, in order
    selectorMoved,                  \* djc: a case of the headphone selector has been taken since construction
    rotaryBuf,                      \* signs of the samples in the buffers of m_pRotaryLeft / m_pRotaryRight, oldest first
    m_playlistId,                   \* SetlogFeature: id of the current history playlist
    m_recentTracks,                 \* SetlogFeature: ids of the tracks played last, newest first
    m_lastRightClickedIndex,        \* SetlogFeature: playlist id of the sidebar item clicked last
    playlistTracks,                 \* table Playlists / PlaylistTracks: id of each history playlist -> its track ids
    lastPlaylistId,                 \* highest id createPlaylist has handed out
    tableModelPlaylist,             \* m_pPlaylistTableModel->getPlaylist()
    playCount,                      \* times played of each library track
    m_values,                       \* ConfigObject: the values in memory, as the text save() writes
    configFile,                     \* contents of the file m_filename
    tmpFile,                        \* contents of the file m_filename + ".tmp"
    ev,                             \* the event the last handler call received
    sent,                           \* sink writes of the last handler call, in order
    jogDelta,                       \* jog deltas (iDiff) the last handler call contributed
    pre                             \* what the last handler call found in the members it decodes with

vars == << m_iHerculesHeadphonesSelection, m_bHeadphoneLeft, m_bHeadphoneRight,
           m_dJogLeftOld, m_dJogRightOld, m_iJogLeft, m_iJogRight,
           m_iPitchLeft, m_iPitchRight, m_iPitchOffsetLeft, m_iPitchOffsetRight,
           m_dLeftVolumeOld, m_dRightVolumeOld, leds, calibLeft, calibRight,
           leftJogProcessing, rightJogProcessing, runPc, build, m_iFd, fillArg,
           jogLost, filterCalls, selectorMoved, rotaryBuf,
           m_playlistId, m_recentTracks, m_lastRightClickedIndex, playlistTracks,
           lastPlaylistId, tableModelPlaylist, playCount,
           m_values, configFile, tmpFile,
           ev, sent, jogDelta, pre >>

\* the members of HerculesLinux and what the model keeps about its last call
herculesVars ==
    << m_iHerculesHeadphonesSelection, m_bHeadphoneLeft, m_bHeadphoneRight,
       m_dJogLeftOld, m_dJogRightOld, m_iJogLeft, m_iJogRight,
       m_iPitchLeft, m_iPitchRight, m_iPitchOffsetLeft, m_iPitchOffsetRight,
       m_dLeftVolumeOld, m_dRightVolumeOld, leds, calibLeft, calibRight,
       leftJogProcessing, rightJogProcessing, runPc, build, m_iFd, fillArg,
       jogLost, filterCalls, selectorMoved, rotaryBuf, sent, jogDelta, pre >>

\* the members of SetlogFeature and the tables it works on
setlogVars ==
    << m_playlistId, m_recentTracks, m_lastRightClickedIndex, playlistTracks,
       lastPlaylistId, tableModelPlaylist, playCount >>

\* ConfigObject and its two files
configVars == << m_values, configFile, tmpFile >>

kInvalidPlaylistId == -1

\* no SetlogFeature has been constructed
SetlogUnused ==
    /\ m_playlistId = kInvalidPlaylistId
    /\ m_recentTracks = <<>>
    /\ m_lastRightClickedIndex = kInvalidPlaylistId
    /\ playlistTracks = <<>>
    /\ lastPlaylistId = 0
    /\ tableModelPlaylist = kInvalidPlaylistId
    /\ playCount = <<>>

\* no ConfigObject has been constructed
ConfigUnused ==
    /\ m_values = "none"
    /\ configFile = "absent"
    /\ tmpFile = "absent"

Pre(old, prev, off) ==
    [sel |-> m_iHerculesHeadphonesSelection, left |-> m_bHeadphoneLeft,
     right |-> m_bHeadphoneRight, old |-> old, prev |-> prev, off |-> off]

-----------------------------------------------------------------------------
(* Bounds of the model *)

\* raw values within EdgeWidth of the points where the decoders change
\* behaviour are fed to the jog and pitch decoders
EdgeWidth == 1

\* cap on the magnitude of a pitch offset (the offset can grow without bound)
MaxPitchOffset == 300

\* cap on the magnitude of a jog accumulator (libdjconsole build)
MaxJogAccum == 300

\* cap on the magnitude of a jog accumulator, and of jogLost, in the
\* specifications that operate several controls or threads at once
MaxFrameAccum == 4

-----------------------------------------------------------------------------
(* Program constants *)

kiPitchUninitialized == -9999

MaxRaw == 255

Abs(x) == IF x < 0 THEN -x ELSE x

\* raw values of the 8-bit jog counter that are fed to the model
JogRaws ==
    { r \in 0..MaxRaw :
        \/ r <= EdgeWidth
        \/ r >= MaxRaw - EdgeWidth
        \/ Abs(r - 200) <= EdgeWidth
        \/ Abs(r - 55) <= EdgeWidth
        \/ r = 128 }

\* raw values of the 8-bit pitch counter that are fed to the model
PitchRaws ==
    { r \in 0..MaxRaw :
        \/ r <= EdgeWidth
        \/ r >= MaxRaw - EdgeWidth
        \/ Abs(r - 127) <= EdgeWidth
        \/ r = 64
        \/ r = 250 }

\* values returned by Rotary::filter and Rotary::fillBuffer (times 4)
FilterOut == {-4, 0, 4}

HeadphoneStates == {"SPLIT", "MIX", "DECK_A", "DECK_B"}

NoEvent == [type |-> "none", code |-> "none", value |-> 0]

\* what a handler call found in the members it decodes its event with:
\* sel, left, right are the headphone members, old the previous raw jog
\* value, prev and off the pitch members of the event's side (0 when the
\* event is of another kind)
NoPre == [sel |-> "none", left |-> FALSE, right |-> FALSE, old |-> 0, prev |-> 0, off |-> 0]

-----------------------------------------------------------------------------
(* Sink writes *)

\* a call m_pRotary<rotary>->fn(arg); arg is the argument as the caller
\* holds it before any scaling (iDiff for filter(iDiff/16.))
RotaryCall(rotary, fn, arg) == [rotary |-> rotary, fn |-> fn, arg |-> arg]

\* m_pRotaryLeft->setFilterLength(4): samples in the moving average
RotaryLength == 4

Sign(x) == IF x > 0 THEN 1 ELSE IF x < 0 THEN -1 ELSE 0

\* a Rotary buffer that holds no motion
RotaryDrained == [i \in 1..RotaryLength |-> 0]

RotaryIdle == [Left |-> RotaryDrained, Right |-> RotaryDrained]

\* the samples are not followed
NoHistory == [Left |-> <<>>, Right |-> <<>>]

\* Rotary::fillBuffer(x) seeds the whole history with x; Rotary::filter(x)
\* drops the oldest sample and appends x.  Of each sample the sign is kept.
RotaryPush(buf, fn, arg) ==
    IF buf = <<>> THEN <<>>
    ELSE IF fn = "fillBuffer" THEN [i \in 1..RotaryLength |-> Sign(arg)]
    ELSE Tail(buf) \o <<Sign(arg)>>

\* the buffers after the calls of one step, made in order
RECURSIVE RotaryAfter(_, _)
RotaryAfter(rot, calls) ==
    IF calls = <<>> THEN rot
    ELSE LET c == Head(calls)
         IN  RotaryAfter([rot EXCEPT ![c.rotary] = RotaryPush(rot[c.rotary], c.fn, c.arg)],
                         Tail(calls))

\* what a call may return when it leaves the buffer buf: the moving average
\* over the buffer, scaled; 0 when every sample is 0, of the sign of the
\* samples when those that are not 0 agree in sign
RotaryReturn(buf) ==
    LET signs == {buf[i] : i \in 1..Len(buf)} \ {0}
    IN  IF buf = <<>> THEN FilterOut
        ELSE IF signs = {} THEN {0}
        ELSE IF signs = {1} THEN {x \in FilterOut : x > 0}
        ELSE IF signs = {-1} THEN {x \in FilterOut : x < 0}
        ELSE FilterOut

\* what the filter call of an EV_ABS event of the given code may return
RotaryReturnFor(code, rot) ==
    CASE code = "kiHerculesLeftJog" -> RotaryReturn(rot.Left)
      [] code = "kiHerculesRightJog" -> RotaryReturn(rot.Right)
      [] OTHER -> FilterOut

sendEvent(q4, ctl) == [fn |-> "sendEvent", ctl |-> ctl, val |-> q4]

sendButtonEvent(b, ctl) ==
    [fn |-> "sendButtonEvent", ctl |-> ctl, val |-> IF b THEN 1 ELSE 0]

-----------------------------------------------------------------------------
(* Headphone deck selector, libdjconsole build: consoleEvent cases 100..103 *)

RightHeadphoneWrite == sendButtonEvent(TRUE, "m_pControlObjectRightBtnHeadphone")

LeftHeadphoneWrite == sendButtonEvent(TRUE, "m_pControlObjectLeftBtnHeadphone")

\* mutant of ToggleRightIf: the write is sent whether or not the enable differs
ToggleRightIf_AlwaysSends(c, r) ==
    [b |-> IF c THEN ~r ELSE r, out |-> <<RightHeadphoneWrite>>]

\* if (c) { sendButtonEvent(true, ...RightBtnHeadphone); m_bHeadphoneRight = !m_bHeadphoneRight; }
ToggleRightIf(c, r) ==
    [b |-> IF c THEN ~r ELSE r, out |-> IF c THEN <<RightHeadphoneWrite>> ELSE <<>>]

\* if (c) { sendButtonEvent(true, ...LeftBtnHeadphone); m_bHeadphoneLeft = !m_bHeadphoneLeft; }
ToggleLeftIf(c, l) ==
    [b |-> IF c THEN ~l ELSE l, out |-> IF c THEN <<LeftHeadphoneWrite>> ELSE <<>>]

\* body of case 103 when second == 4
HeadphoneSplit(sel, l, r) ==
    LET tr == ToggleRightIf(r, r)
        tl == ToggleLeftIf(l, l)
    IN  [sel |-> "SPLIT", left |-> tl.b, right |-> tr.b, out |-> tr.out \o tl.out]

\* mutant of HeadphoneMix: the left enable is tested as in case 103
HeadphoneMix_LeftAsSplit(sel, l, r) ==
    LET tr == ToggleRightIf(~r, r)
        tl == ToggleLeftIf(l, l)
    IN  [sel |-> "MIX", left |-> tl.b, right |-> tr.b, out |-> tr.out \o tl.out]

\* body of case 102 when second == 8
HeadphoneMix(sel, l, r) ==
    LET tr == ToggleRightIf(~r, r)
        tl == ToggleLeftIf(~l, l)
    IN  [sel |-> "MIX", left |-> tl.b, right |-> tr.b, out |-> tr.out \o tl.out]

\* body of case 101 when its condition holds
HeadphoneDeckB(sel, l, r) ==
    LET tr == ToggleRightIf(~r, r)
        tl == ToggleLeftIf(l, l)
    IN  [sel |-> "DECK_B", left |-> tl.b, right |-> tr.b, out |-> tr.out \o tl.out]

\* mutant of HeadphoneDeckA: the left enable is tested as in case 103
HeadphoneDeckA_LeftAsSplit(sel, l, r) ==
    LET tr == ToggleRightIf(r, r)
        tl == ToggleLeftIf(l, l)
    IN  [sel |-> "DECK_A", left |-> tl.b, right |-> tr.b, out |-> tr.out \o tl.out]

\* body of case 100 when its condition holds
HeadphoneDeckA(sel, l, r) ==
    LET tr == ToggleRightIf(r, r)
        tl == ToggleLeftIf(~l, l)
    IN  [sel |-> "DECK_A", left |-> tl.b, right |-> tr.b, out |-> tr.out \o tl.out]

HeadphoneKeep(sel, l, r) ==
    [sel |-> sel, left |-> l, right |-> r, out |-> <<>>]

\* mutant of HeadphoneAccepts: case 101 without its test of the selector state
HeadphoneAccepts_NoDeckBGuard(first, second, sel) ==
    \/ first = "103" /\ second = 4
    \/ first = "102" /\ second = 8
    \/ first = "101" /\ second = 2
    \/ first = "100" /\ second = 1 /\ sel = "DECK_B"

\* mutant of HeadphoneAccepts: case 100 without its test of the selector state
HeadphoneAccepts_NoDeckAGuard(first, second, sel) ==
    \/ first = "103" /\ second = 4
    \/ first = "102" /\ second = 8
    \/ first = "101" /\ second = 2 /\ (sel = "DECK_A" \/ sel = "MIX")
    \/ first = "100" /\ second = 1

\* the conditions of the four cases
HeadphoneAccepts(first, second, sel) ==
    \/ first = "103" /\ second = 4
    \/ first = "102" /\ second = 8
    \/ first = "101" /\ second = 2 /\ (sel = "DECK_A" \/ sel = "MIX")
    \/ first = "100" /\ second = 1 /\ sel = "DECK_B"

\* cases 103, 102, 101, 100 of the second switch of consoleEvent
HeadphoneSelect(first, second, sel, l, r) ==
    IF ~HeadphoneAccepts(first, second, sel) THEN HeadphoneKeep(sel, l, r)
    ELSE CASE first = "103" -> HeadphoneSplit(sel, l, r)
           [] first = "102" -> HeadphoneMix(sel, l, r)
           [] first = "101" -> HeadphoneDeckB(sel, l, r)
           [] first = "100" -> HeadphoneDeckA(sel, l, r)

-----------------------------------------------------------------------------
(* Jog wheel delta, both builds *)

\* variant: the test for a stored previous value is missing
JogDiff_NoFirstTest(old, value) ==
    LET d == value - old
    IN  IF d < -200 THEN d + 256
        ELSE IF d > 200 THEN d - 256
        ELSE d

\* variant: a difference above 200 is not taken as a wrap
JogDiff_NoUpperWrap(old, value) ==
    LET d == IF old >= 0 THEN value - old ELSE 0
    IN  IF d < -200 THEN d + 256 ELSE d

\* variant: a difference below -200 is not taken as a wrap
JogDiff_NoLowerWrap(old, value) ==
    LET d == IF old >= 0 THEN value - old ELSE 0
    IN  IF d > 200 THEN d - 256 ELSE d

\* variant: a difference of exactly 200 is taken as a wrap, one of -200 is not
JogDiff_UpperInclusive(old, value) ==
    LET d == IF old >= 0 THEN value - old ELSE 0
    IN  IF d < -200 THEN d + 256
        ELSE IF d >= 200 THEN d - 256
        ELSE d

\* iDiff of cases LEFT_JOG / RIGHT_JOG (djc) and kiHerculesLeftJog /
\* kiHerculesRightJog (evdev); old < 0 means no previous value
JogDiff(old, value) ==
    LET d == IF old >= 0 THEN value - old ELSE 0
    IN  IF d < -200 THEN d + 256
        ELSE IF d > 200 THEN d - 256
        ELSE d

-----------------------------------------------------------------------------
(* Pitch, libdjconsole build: the legacy PitchChange *)

PitchChangeLegacy(ev_value, prev, off) ==
    IF prev < 0
    THEN [prev |-> 64, off |-> ev_value, ret4 |-> 4 * 64]
    ELSE LET d0 == ev_value - off
             d1 == IF d0 >= 240 THEN (255 - d0) * (-1) ELSE d0
             d2 == IF d1 <= -240 THEN 255 + d1 ELSE d1
             np == IF \/ (d2 > 0 /\ prev + d2 < 128)
                      \/ (d2 < 0 /\ prev + d2 > 0)
                   THEN prev + d2
                   ELSE IF d2 > 0 THEN 127
                   ELSE IF d2 < 0 THEN 0
                   ELSE prev
         IN  [prev |-> np, off |-> ev_value, ret4 |-> 4 * np]

-----------------------------------------------------------------------------
(* Pitch, evdev build: the revised PitchChange *)

\* mutant of PitchOffsetInit: the anchor is one off
PitchOffsetInit_Anchor128(ev_value, off) ==
    IF off = kiPitchUninitialized THEN 128 - ev_value ELSE off

\* if (m_iPitchOffset==-9999) m_iPitchOffset = 127 - ev_value;
PitchOffsetInit(ev_value, off) ==
    IF off = kiPitchUninitialized THEN 127 - ev_value ELSE off

\* mutant of PitchOffsetRules: the last branch asks for a new initialisation
PitchOffsetRules_ResetAtMin(ev_value, prev, off) ==
    IF (prev + off) = 255 /\ prev < ev_value THEN 255 - ev_value
    ELSE IF prev = 255 /\ ev_value = 0 THEN 255 + off
    ELSE IF ev_value = 255 /\ prev = 0 /\ off >= 0 THEN off - 255
    ELSE IF ev_value < prev /\ prev + off = 0 THEN kiPitchUninitialized
    ELSE off

\* mutant of PitchOffsetRules: without the first test (no stop at 255)
PitchOffsetRules_NoUpperStop(ev_value, prev, off) ==
    IF prev = 255 /\ ev_value = 0 THEN 255 + off
    ELSE IF ev_value = 255 /\ prev = 0 /\ off >= 0 THEN off - 255
    ELSE IF ev_value < prev /\ prev + off = 0 THEN -ev_value
    ELSE off

\* mutant of PitchOffsetRules: the third test without m_iPitchOffset >= 0
PitchOffsetRules_NoSignTest(ev_value, prev, off) ==
    IF (prev + off) = 255 /\ prev < ev_value THEN 255 - ev_value
    ELSE IF prev = 255 /\ ev_value = 0 THEN 255 + off
    ELSE IF ev_value = 255 /\ prev = 0 THEN off - 255
    ELSE IF ev_value < prev /\ prev + off = 0 THEN -ev_value
    ELSE off

\* the if / else if chain; off is the offset the chain reads
PitchOffsetRules(ev_value, prev, off) ==
    IF (prev + off) = 255 /\ prev < ev_value THEN 255 - ev_value
    ELSE IF prev = 255 /\ ev_value = 0 THEN 255 + off
    ELSE IF ev_value = 255 /\ prev = 0 /\ off >= 0 THEN off - 255
    ELSE IF ev_value < prev /\ prev + off = 0 THEN -ev_value
    ELSE off

\* the condition of the i-th test of the chain, taken by itself
PitchRuleHolds(i, ev_value, prev, off) ==
    CASE i = 1 -> (prev + off) = 255 /\ prev < ev_value
      [] i = 2 -> prev = 255 /\ ev_value = 0
      [] i = 3 -> ev_value = 255 /\ prev = 0 /\ off >= 0
      [] i = 4 -> ev_value < prev /\ prev + off = 0

\* mutant of PitchRuleOffset: the second branch adds 256
PitchRuleOffset_Wrap256(i, ev_value, prev, off) ==
    CASE i = 1 -> 255 - ev_value
      [] i = 2 -> 256 + off
      [] i = 3 -> off - 255
      [] i = 4 -> -ev_value

\* the assignment of the i-th branch of the chain
PitchRuleOffset(i, ev_value, prev, off) ==
    CASE i = 1 -> 255 - ev_value
      [] i = 2 -> 255 + off
      [] i = 3 -> off - 255
      [] i = 4 -> -ev_value

\* m_iPitchPrevious = ev_value; return ((m_iPitchPrevious + m_iPitchOffset)-.5)/2.
PitchReturn(prev, off) == 2 * (prev + off) - 1

\* mutant of PitchChange: m_iPitchPrevious is stored only when no rule fired
PitchChange_PrevKeptOnRule(ev_value, prev, off) ==
    LET o0 == PitchOffsetInit(ev_value, off)
        o == PitchOffsetRules(ev_value, prev, o0)
        np == IF o # o0 THEN prev ELSE ev_value
    IN  [prev |-> np, off |-> o, ret4 |-> PitchReturn(np, o)]

\* mutant of PitchChange: the value returned is computed before the rules
PitchChange_ReturnBeforeRules(ev_value, prev, off) ==
    LET o0 == PitchOffsetInit(ev_value, off)
        o == PitchOffsetRules(ev_value, prev, o0)
    IN  [prev |-> ev_value, off |-> o, ret4 |-> PitchReturn(ev_value, o0)]

PitchChange(ev_value, prev, off) ==
    LET o == PitchOffsetRules(ev_value, prev, PitchOffsetInit(ev_value, off))
    IN  [prev |-> ev_value, off |-> o, ret4 |-> PitchReturn(ev_value, o)]

-----------------------------------------------------------------------------
(* libdjconsole build: constructor, consoleEvent, run *)

\* HerculesLinux::HerculesLinux().  The constructor stores the literal 1 in
\* m_iHerculesHeadphonesSelection; which of the four kiHerculesHeadphone*
\* constants that is, is fixed in a header outside the source tree, so the
\* selector starts in any of the four states.  m_iPitchOffsetLeft/Right are
\* not set by this constructor and are written before they are first read.
InitDjc ==
    /\ m_iHerculesHeadphonesSelection \in HeadphoneStates
    /\ m_bHeadphoneLeft = FALSE
    /\ m_bHeadphoneRight = FALSE
    /\ m_dJogLeftOld = -1
    /\ m_dJogRightOld = -1
    /\ m_iJogLeft = 0
    /\ m_iJogRight = 0
    /\ m_iPitchLeft = -1
    /\ m_iPitchRight = -1
    /\ m_iPitchOffsetLeft = 0
    /\ m_iPitchOffsetRight = 0
    /\ m_dLeftVolumeOld = 0
    /\ m_dRightVolumeOld = 0
    /\ leds = {}
    /\ calibLeft = 0
    /\ calibRight = 0
    /\ leftJogProcessing = FALSE
    /\ rightJogProcessing = FALSE
    /\ runPc = "idle"
    /\ build = "libdjconsole"
    /\ m_iFd = -1
    /\ fillArg = 0
    /\ jogLost = 0
    /\ filterCalls = <<>>
    /\ selectorMoved = FALSE
    /\ rotaryBuf = NoHistory
    /\ SetlogUnused
    /\ ConfigUnused
    /\ ev = NoEvent
    /\ sent = <<>>
    /\ jogDelta = <<>>
    /\ pre = NoPre

\* codes whose LED follows the event (first switch, led = first)
DjcLedCodes ==
    {"LEFT_PLAY", "LEFT_CUE", "LEFT_MASTER_TEMPO", "LEFT_AUTO_BEAT", "LEFT_MONITOR",
     "RIGHT_PLAY", "RIGHT_CUE", "RIGHT_MASTER_TEMPO", "RIGHT_AUTO_BEAT", "RIGHT_MONITOR"}

DjcCodes ==
    DjcLedCodes \cup
    {"LEFT_1", "LEFT_2", "LEFT_3", "RIGHT_1", "RIGHT_2", "RIGHT_3",
     "LEFT_VOL", "RIGHT_VOL", "XFADER",
     "LEFT_PITCH_DOWN", "LEFT_PITCH_UP", "RIGHT_PITCH_DOWN", "RIGHT_PITCH_UP",
     "LEFT_SKIP_BACK", "LEFT_SKIP_FORWARD", "RIGHT_SKIP_BACK", "RIGHT_SKIP_FORWARD",
     "RIGHT_HIGH", "RIGHT_MID", "RIGHT_BASS", "LEFT_HIGH", "LEFT_MID", "LEFT_BASS",
     "103", "102", "101", "100", "LEFT_JOG", "RIGHT_JOG", "LEFT_PITCH", "RIGHT_PITCH",
     "0", "UNKNOWN"}

\* LED bits after the first switch and the final setBit(led, ledIsOn); second != 0
DjcLeds(first, l) ==
    CASE first \in DjcLedCodes -> l \cup {first}
      [] first = "LEFT_1"  -> (l \cup {"LEFT_FX"}) \ {"LEFT_FX_CUE", "LEFT_LOOP"}
      [] first = "LEFT_2"  -> (l \cup {"LEFT_FX_CUE"}) \ {"LEFT_FX", "LEFT_LOOP"}
      [] first = "LEFT_3"  -> (l \cup {"LEFT_LOOP"}) \ {"LEFT_FX", "LEFT_FX_CUE"}
      [] first = "RIGHT_1" -> (l \cup {"RIGHT_FX"}) \ {"RIGHT_FX_CUE", "RIGHT_LOOP"}
      [] first = "RIGHT_2" -> (l \cup {"RIGHT_FX_CUE"}) \ {"RIGHT_FX", "RIGHT_LOOP"}
      [] first = "RIGHT_3" -> (l \cup {"RIGHT_LOOP"}) \ {"RIGHT_FX", "RIGHT_FX_CUE"}
      [] OTHER -> l

\* setCalibration of the first switch
DjcCalibLeft(first, c) ==
    CASE first = "LEFT_1" -> 512
      [] first = "LEFT_2" -> 256
      [] first = "LEFT_3" -> 64
      [] OTHER -> c

DjcCalibRight(first, c) ==
    CASE first = "RIGHT_1" -> 512
      [] first = "RIGHT_2" -> 256
      [] first = "RIGHT_3" -> 64
      [] OTHER -> c

\* sink writes of the cases of the second switch that keep no decode state;
\* playing is the value of m_pControlObject{Left,Right}BtnPlayProxy->get()
DjcPlainWrites(first, second, playing) ==
    CASE first = "LEFT_VOL"  -> <<sendEvent(2 * second, "m_pControlObjectLeftVolume")>>
      [] first = "RIGHT_VOL" -> <<sendEvent(2 * second, "m_pControlObjectRightVolume")>>
      [] first = "LEFT_PLAY"  -> <<sendButtonEvent(TRUE, "m_pControlObjectLeftBtnPlay")>>
      [] first = "RIGHT_PLAY" -> <<sendButtonEvent(TRUE, "m_pControlObjectRightBtnPlay")>>
      [] first = "XFADER" -> <<sendEvent(2 * (second + 1), "m_pControlObjectCrossfade")>>
      [] first = "LEFT_PITCH_DOWN"  -> <<sendButtonEvent(TRUE, "m_pControlObjectLeftBtnPitchBendMinus")>>
      [] first = "LEFT_PITCH_UP"    -> <<sendButtonEvent(TRUE, "m_pControlObjectLeftBtnPitchBendPlus")>>
      [] first = "RIGHT_PITCH_DOWN" -> <<sendButtonEvent(TRUE, "m_pControlObjectRightBtnPitchBendMinus")>>
      [] first = "RIGHT_PITCH_UP"   -> <<sendButtonEvent(TRUE, "m_pControlObjectRightBtnPitchBendPlus")>>
      [] first = "LEFT_SKIP_BACK"     -> <<sendButtonEvent(TRUE, "m_pControlObjectLeftBtnTrackPrev")>>
      [] first = "LEFT_SKIP_FORWARD"  -> <<sendButtonEvent(TRUE, "m_pControlObjectLeftBtnTrackNext")>>
      [] first = "RIGHT_SKIP_BACK"    -> <<sendButtonEvent(TRUE, "m_pControlObjectRightBtnTrackPrev")>>
      [] first = "RIGHT_SKIP_FORWARD" -> <<sendButtonEvent(TRUE, "m_pControlObjectRightBtnTrackNext")>>
      [] first = "RIGHT_HIGH" -> <<sendEvent(4 * (second \div 2), "m_pControlObjectRightTreble")>>
      [] first = "RIGHT_MID"  -> <<sendEvent(4 * (second \div 2), "m_pControlObjectRightMiddle")>>
      [] first = "RIGHT_BASS" -> <<sendEvent(4 * (second \div 2), "m_pControlObjectRightBass")>>
      [] first = "LEFT_HIGH"  -> <<sendEvent(4 * (second \div 2), "m_pControlObjectLeftTreble")>>
      [] first = "LEFT_MID"   -> <<sendEvent(4 * (second \div 2), "m_pControlObjectLeftMiddle")>>
      [] first = "LEFT_BASS"  -> <<sendEvent(4 * (second \div 2), "m_pControlObjectLeftBass")>>
      [] first = "LEFT_CUE" ->
            IF playing THEN <<sendButtonEvent(TRUE, "m_pControlObjectLeftBtnCueAndStop")>>
            ELSE <<sendButtonEvent(TRUE, "m_pControlObjectLeftBtnCue")>>
      [] first = "RIGHT_CUE" ->
            IF playing THEN <<sendButtonEvent(TRUE, "m_pControlObjectRightBtnCueAndStop")>>
            ELSE <<sendButtonEvent(TRUE, "m_pControlObjectRightBtnCue")>>
      [] first = "LEFT_MASTER_TEMPO"  -> <<sendEvent(0, "m_pControlObjectLeftBtnMasterTempo")>>
      [] first = "RIGHT_MASTER_TEMPO" -> <<sendEvent(0, "m_pControlObjectRightBtnMasterTempo")>>
      [] first = "RIGHT_MONITOR" -> <<RightHeadphoneWrite>>
      [] first = "LEFT_MONITOR"  -> <<LeftHeadphoneWrite>>
      [] first = "LEFT_AUTO_BEAT"  -> <<sendButtonEvent(FALSE, "m_pControlObjectLeftBtnAutobeat")>>
      [] first = "RIGHT_AUTO_BEAT" -> <<sendButtonEvent(FALSE, "m_pControlObjectRightBtnAutobeat")>>
      [] OTHER -> <<>>

\* mutant of DjcRelease: the LED bit is left as it is
DjcRelease_KeepsLed(first, l) == l

\* LED bits after djc->Leds.setBit(first, false); second == 0
DjcRelease(first, l) == l \ {first}

\* HerculesLinux::consoleEvent(first, second), libdjconsole build.  The
\* toggles of m_bMasterTempoLeft/Right are left out: nothing reads them.
consoleEvent(first, second) ==
    /\ filterCalls' = <<>>
    /\ rotaryBuf' = RotaryAfter(rotaryBuf, filterCalls')
    /\ build = "libdjconsole"
    /\ runPc # "idle"
    /\ UNCHANGED <<build, m_iFd, fillArg, jogLost, setlogVars, configVars>>
    /\ selectorMoved' =
          (selectorMoved \/ HeadphoneAccepts(first, second, m_iHerculesHeadphonesSelection))
    /\ ev' = [type |-> "console", code |-> first, value |-> second]
    /\ pre' = CASE first = "LEFT_JOG" -> Pre(m_dJogLeftOld, 0, 0)
              [] first = "RIGHT_JOG" -> Pre(m_dJogRightOld, 0, 0)
              [] first = "LEFT_PITCH" -> Pre(0, m_iPitchLeft, m_iPitchOffsetLeft)
              [] first = "RIGHT_PITCH" -> Pre(0, m_iPitchRight, m_iPitchOffsetRight)
              [] OTHER -> Pre(0, 0, 0)
    /\ UNCHANGED <<m_dLeftVolumeOld, m_dRightVolumeOld,
                   leftJogProcessing, rightJogProcessing, runPc>>
    /\ IF second = 0
       THEN /\ leds' = DjcRelease(first, leds)
            /\ sent' = <<>>
            /\ jogDelta' = <<>>
            /\ UNCHANGED <<m_iHerculesHeadphonesSelection, m_bHeadphoneLeft,
                           m_bHeadphoneRight, m_dJogLeftOld, m_dJogRightOld,
                           m_iJogLeft, m_iJogRight, m_iPitchLeft, m_iPitchRight,
                           m_iPitchOffsetLeft, m_iPitchOffsetRight,
                           calibLeft, calibRight>>
       ELSE IF first = "0"
       THEN /\ sent' = <<>>
            /\ jogDelta' = <<>>
            /\ UNCHANGED <<m_iHerculesHeadphonesSelection, m_bHeadphoneLeft,
                           m_bHeadphoneRight, m_dJogLeftOld, m_dJogRightOld,
                           m_iJogLeft, m_iJogRight, m_iPitchLeft, m_iPitchRight,
                           m_iPitchOffsetLeft, m_iPitchOffsetRight,
                           calibLeft, calibRight, leds>>
       ELSE \E playing \in BOOLEAN :
            LET hp == HeadphoneSelect(first, second, m_iHerculesHeadphonesSelection,
                                      m_bHeadphoneLeft, m_bHeadphoneRight)
                dl == JogDiff(m_dJogLeftOld, second)
                dr == JogDiff(m_dJogRightOld, second)
                pl == PitchChangeLegacy(second, m_iPitchLeft, m_iPitchOffsetLeft)
                pr == PitchChangeLegacy(second, m_iPitchRight, m_iPitchOffsetRight)
            IN  /\ leds' = DjcLeds(first, leds)
                /\ calibLeft' = DjcCalibLeft(first, calibLeft)
                /\ calibRight' = DjcCalibRight(first, calibRight)
                /\ m_iHerculesHeadphonesSelection' = hp.sel
                /\ m_bHeadphoneLeft' =
                      IF first = "LEFT_MONITOR" THEN ~m_bHeadphoneLeft ELSE hp.left
                /\ m_bHeadphoneRight' =
                      IF first = "RIGHT_MONITOR" THEN ~m_bHeadphoneRight ELSE hp.right
                /\ m_dJogLeftOld' = IF first = "LEFT_JOG" THEN second ELSE m_dJogLeftOld
                /\ m_iJogLeft' = IF first = "LEFT_JOG" THEN m_iJogLeft + dl ELSE m_iJogLeft
                /\ m_dJogRightOld' = IF first = "RIGHT_JOG" THEN second ELSE m_dJogRightOld
                /\ m_iJogRight' = IF first = "RIGHT_JOG" THEN m_iJogRight + dr ELSE m_iJogRight
                /\ jogDelta' = CASE first = "LEFT_JOG" -> <<[side |-> "Left", iDiff |-> dl]>>
                                 [] first = "RIGHT_JOG" -> <<[side |-> "Right", iDiff |-> dr]>>
                                 [] OTHER -> <<>>
                /\ m_iPitchLeft' = IF first = "LEFT_PITCH" THEN pl.prev ELSE m_iPitchLeft
                /\ m_iPitchOffsetLeft' =
                      IF first = "LEFT_PITCH" THEN pl.off ELSE m_iPitchOffsetLeft
                /\ m_iPitchRight' = IF first = "RIGHT_PITCH" THEN pr.prev ELSE m_iPitchRight
                /\ m_iPitchOffsetRight' =
                      IF first = "RIGHT_PITCH" THEN pr.off ELSE m_iPitchOffsetRight
                /\ sent' = CASE first \in {"103", "102", "101", "100"} -> hp.out
                             [] first = "LEFT_PITCH" ->
                                  <<sendEvent(pl.ret4, "m_pControlObjectLeftPitch")>>
                             [] first = "RIGHT_PITCH" ->
                                  <<sendEvent(pr.ret4, "m_pControlObjectRightPitch")>>
                             [] OTHER -> DjcPlainWrites(first, second, playing)

\* HerculesLinux::opendev(), libdjconsole build.  djc is 0 exactly until the
\* first call, which also starts the thread run() and registers the
\* callback console_event: djc == 0 is runPc = "idle".  Later calls find
\* djc != 0 and return.
opendevDjc ==
    /\ filterCalls' = <<>>
    /\ rotaryBuf' = RotaryAfter(rotaryBuf, filterCalls')
    /\ build = "libdjconsole"
    /\ runPc' = IF runPc = "idle" THEN "start" ELSE runPc
    /\ ev' = [type |-> "opendev", code |-> "none", value |-> 0]
    /\ pre' = Pre(0, 0, 0)
    /\ sent' = <<>>
    /\ jogDelta' = <<>>
    /\ UNCHANGED <<m_iHerculesHeadphonesSelection, m_bHeadphoneLeft, m_bHeadphoneRight,
                   m_dJogLeftOld, m_dJogRightOld, m_iJogLeft, m_iJogRight,
                   m_iPitchLeft, m_iPitchRight, m_iPitchOffsetLeft, m_iPitchOffsetRight,
                   m_dLeftVolumeOld, m_dRightVolumeOld, leds, calibLeft, calibRight,
                   leftJogProcessing, rightJogProcessing,
                   build, selectorMoved, setlogVars, configVars, m_iFd, fillArg, jogLost>>

\* HerculesLinux::closedev(), libdjconsole build: the body is empty
closedevDjc ==
    /\ filterCalls' = <<>>
    /\ rotaryBuf' = RotaryAfter(rotaryBuf, filterCalls')
    /\ build = "libdjconsole"
    /\ ev' = [type |-> "closedev", code |-> "none", value |-> 0]
    /\ pre' = Pre(0, 0, 0)
    /\ sent' = <<>>
    /\ jogDelta' = <<>>
    /\ UNCHANGED <<m_iHerculesHeadphonesSelection, m_bHeadphoneLeft, m_bHeadphoneRight,
                   m_dJogLeftOld, m_dJogRightOld, m_iJogLeft, m_iJogRight,
                   m_iPitchLeft, m_iPitchRight, m_iPitchOffsetLeft, m_iPitchOffsetRight,
                   m_dLeftVolumeOld, m_dRightVolumeOld, leds, calibLeft, calibRight,
                   leftJogProcessing, rightJogProcessing, runPc,
                   build, selectorMoved, setlogVars, configVars, m_iFd, fillArg, jogLost>>

\* prologue of HerculesLinux::run(), libdjconsole build
RunInit ==
    /\ filterCalls' = <<>>
    /\ rotaryBuf' = RotaryAfter(rotaryBuf, filterCalls')
    /\ build = "libdjconsole"
    /\ UNCHANGED <<build, selectorMoved, setlogVars, configVars, m_iFd, fillArg, jogLost>>
    /\ runPc = "start"
    /\ runPc' = "loop"
    /\ leftJogProcessing' = FALSE
    /\ rightJogProcessing' = FALSE
    /\ calibLeft' = 64
    /\ calibRight' = 64
    /\ leds' = (leds \ {"LEFT_FX", "LEFT_FX_CUE", "RIGHT_FX", "RIGHT_FX_CUE"})
                 \cup {"LEFT_LOOP", "RIGHT_LOOP"}
    /\ ev' = [type |-> "run", code |-> "init", value |-> 0]
    /\ pre' = Pre(0, 0, 0)
    /\ sent' = <<>>
    /\ jogDelta' = <<>>
    /\ UNCHANGED <<m_iHerculesHeadphonesSelection, m_bHeadphoneLeft, m_bHeadphoneRight,
                   m_dJogLeftOld, m_dJogRightOld, m_iJogLeft, m_iJogRight,
                   m_iPitchLeft, m_iPitchRight, m_iPitchOffsetLeft, m_iPitchOffsetRight,
                   m_dLeftVolumeOld, m_dRightVolumeOld>>

\* mutant of JogSend: a write only when the value is not 0
JogSend_OnlyNonzero(x, processing) == x # 0

\* if ( l != 0 || leftJogProcessing): the test before sendEvent(l, ...)
JogSend(x, processing) == (x # 0) \/ processing

\* one iteration of the while loop of HerculesLinux::run(), libdjconsole
\* build; l and r are what fillBuffer / filter return
RunTick ==
    /\ filterCalls' =
          << IF m_iJogLeft # 0 THEN RotaryCall("Left", "fillBuffer", m_iJogLeft)
             ELSE RotaryCall("Left", "filter", m_iJogLeft),
             IF m_iJogRight # 0 THEN RotaryCall("Right", "fillBuffer", m_iJogRight)
             ELSE RotaryCall("Right", "filter", m_iJogRight) >>
    /\ rotaryBuf' = RotaryAfter(rotaryBuf, filterCalls')
    /\ build = "libdjconsole"
    /\ UNCHANGED <<build, selectorMoved, setlogVars, configVars, m_iFd, fillArg, jogLost>>
    /\ runPc = "loop"
    /\ \E l \in RotaryReturn(rotaryBuf'.Left), r \in RotaryReturn(rotaryBuf'.Right) :
        LET lp == (m_iJogLeft # 0) \/ leftJogProcessing
            rp == (m_iJogRight # 0) \/ rightJogProcessing
            lsend == JogSend(l, lp)
            rsend == JogSend(r, rp)
        IN  /\ m_iJogLeft' = 0
            /\ m_iJogRight' = 0
            /\ leftJogProcessing' = IF lsend /\ l = 0 THEN FALSE ELSE lp
            /\ rightJogProcessing' = IF rsend /\ r = 0 THEN FALSE ELSE rp
            /\ sent' = (IF lsend THEN <<sendEvent(l, "m_pControlObjectLeftJog")>> ELSE <<>>)
                       \o (IF rsend THEN <<sendEvent(r, "m_pControlObjectRightJog")>> ELSE <<>>)
    /\ ev' = [type |-> "run", code |-> "tick", value |-> 0]
    /\ pre' = Pre(0, 0, 0)
    /\ jogDelta' = <<>>
    /\ UNCHANGED <<m_iHerculesHeadphonesSelection, m_bHeadphoneLeft, m_bHeadphoneRight,
                   m_dJogLeftOld, m_dJogRightOld,
                   m_iPitchLeft, m_iPitchRight, m_iPitchOffsetLeft, m_iPitchOffsetRight,
                   m_dLeftVolumeOld, m_dRightVolumeOld, leds, calibLeft, calibRight, runPc>>

\* run(), libdjconsole build, left wheel, up to the call
\* m_pRotaryLeft->fillBuffer(m_iJogLeft): the accumulator was read as
\* nonzero and is passed by value.  consoleEvent runs on the thread of the
\* libdjconsole callback and may add to m_iJogLeft before run() goes on.
RunFillLeft ==
    /\ filterCalls' = << RotaryCall("Left", "fillBuffer", m_iJogLeft) >>
    /\ rotaryBuf' = RotaryAfter(rotaryBuf, filterCalls')
    /\ build = "libdjconsole"
    /\ runPc = "loop"
    /\ m_iJogLeft # 0
    /\ runPc' = "filled"
    /\ fillArg' = m_iJogLeft
    /\ ev' = [type |-> "run", code |-> "fillBuffer", value |-> m_iJogLeft]
    /\ pre' = Pre(0, 0, 0)
    /\ sent' = <<>>
    /\ jogDelta' = <<>>
    /\ UNCHANGED <<m_iHerculesHeadphonesSelection, m_bHeadphoneLeft, m_bHeadphoneRight,
                   m_dJogLeftOld, m_dJogRightOld, m_iJogLeft, m_iJogRight,
                   m_iPitchLeft, m_iPitchRight, m_iPitchOffsetLeft, m_iPitchOffsetRight,
                   m_dLeftVolumeOld, m_dRightVolumeOld, leds, calibLeft, calibRight,
                   leftJogProcessing, rightJogProcessing, build, selectorMoved, setlogVars, configVars, m_iFd, jogLost>>

\* run(), libdjconsole build, from the return of the left fillBuffer call
\* to the end of the iteration: m_iJogLeft = 0; leftJogProcessing = true;
\* then the right wheel and the two sendEvent calls.  What the store
\* overwrites beyond the value fillBuffer was given is added to jogLost.
RunClearLeft ==
    /\ filterCalls' =
          << IF m_iJogRight # 0 THEN RotaryCall("Right", "fillBuffer", m_iJogRight)
             ELSE RotaryCall("Right", "filter", m_iJogRight) >>
    /\ rotaryBuf' = RotaryAfter(rotaryBuf, filterCalls')
    /\ build = "libdjconsole"
    /\ runPc = "filled"
    /\ runPc' = "loop"
    /\ fillArg' = 0
    /\ jogLost' = jogLost + (m_iJogLeft - fillArg)
    /\ \E l \in RotaryReturn(rotaryBuf'.Left), r \in RotaryReturn(rotaryBuf'.Right) :
        LET rp == (m_iJogRight # 0) \/ rightJogProcessing
            rsend == JogSend(r, rp)
        IN  /\ m_iJogLeft' = 0
            /\ m_iJogRight' = 0
            /\ leftJogProcessing' = (l # 0)
            /\ rightJogProcessing' = IF rsend /\ r = 0 THEN FALSE ELSE rp
            /\ sent' = <<sendEvent(l, "m_pControlObjectLeftJog")>>
                       \o (IF rsend THEN <<sendEvent(r, "m_pControlObjectRightJog")>> ELSE <<>>)
    /\ ev' = [type |-> "run", code |-> "tick", value |-> 0]
    /\ pre' = Pre(0, 0, 0)
    /\ jogDelta' = <<>>
    /\ UNCHANGED <<m_iHerculesHeadphonesSelection, m_bHeadphoneLeft, m_bHeadphoneRight,
                   m_dJogLeftOld, m_dJogRightOld,
                   m_iPitchLeft, m_iPitchRight, m_iPitchOffsetLeft, m_iPitchOffsetRight,
                   m_dLeftVolumeOld, m_dRightVolumeOld, leds, calibLeft, calibRight,
                   build, selectorMoved, setlogVars, configVars, m_iFd>>

\* run(), libdjconsole build, left wheel: the test m_iJogLeft != 0 read the
\* accumulator as 0, so the else branch is taken.  The call
\* m_pRotaryLeft->filter(m_iJogLeft) reads the member again; consoleEvent
\* may add to it in between.
RunIdleLeft ==
    /\ build = "libdjconsole"
    /\ runPc = "loop"
    /\ m_iJogLeft = 0
    /\ runPc' = "idleTested"
    /\ filterCalls' = <<>>
    /\ rotaryBuf' = RotaryAfter(rotaryBuf, filterCalls')
    /\ ev' = [type |-> "run", code |-> "idle", value |-> 0]
    /\ pre' = Pre(0, 0, 0)
    /\ sent' = <<>>
    /\ jogDelta' = <<>>
    /\ UNCHANGED <<m_iHerculesHeadphonesSelection, m_bHeadphoneLeft, m_bHeadphoneRight,
                   m_dJogLeftOld, m_dJogRightOld, m_iJogLeft, m_iJogRight,
                   m_iPitchLeft, m_iPitchRight, m_iPitchOffsetLeft, m_iPitchOffsetRight,
                   m_dLeftVolumeOld, m_dRightVolumeOld, leds, calibLeft, calibRight,
                   leftJogProcessing, rightJogProcessing, build, selectorMoved, setlogVars, configVars, m_iFd, fillArg, jogLost>>

\* run(), libdjconsole build, from the call m_pRotaryLeft->filter(m_iJogLeft)
\* of the else branch to the end of the iteration: the accumulator and
\* leftJogProcessing are left as they are, then the right wheel and the
\* sendEvent calls.
RunFilterLeft ==
    /\ build = "libdjconsole"
    /\ runPc = "idleTested"
    /\ runPc' = "loop"
    /\ filterCalls' =
          << RotaryCall("Left", "filter", m_iJogLeft),
             IF m_iJogRight # 0 THEN RotaryCall("Right", "fillBuffer", m_iJogRight)
             ELSE RotaryCall("Right", "filter", m_iJogRight) >>
    /\ rotaryBuf' = RotaryAfter(rotaryBuf, filterCalls')
    /\ \E l \in RotaryReturn(rotaryBuf'.Left), r \in RotaryReturn(rotaryBuf'.Right) :
        LET rp == (m_iJogRight # 0) \/ rightJogProcessing
            lsend == JogSend(l, leftJogProcessing)
            rsend == JogSend(r, rp)
        IN  /\ m_iJogRight' = 0
            /\ leftJogProcessing' = IF lsend /\ l = 0 THEN FALSE ELSE leftJogProcessing
            /\ rightJogProcessing' = IF rsend /\ r = 0 THEN FALSE ELSE rp
            /\ sent' = (IF lsend THEN <<sendEvent(l, "m_pControlObjectLeftJog")>> ELSE <<>>)
                       \o (IF rsend THEN <<sendEvent(r, "m_pControlObjectRightJog")>> ELSE <<>>)
    /\ ev' = [type |-> "run", code |-> "tick", value |-> 0]
    /\ pre' = Pre(0, 0, 0)
    /\ jogDelta' = <<>>
    /\ UNCHANGED <<m_iHerculesHeadphonesSelection, m_bHeadphoneLeft, m_bHeadphoneRight,
                   m_dJogLeftOld, m_dJogRightOld, m_iJogLeft,
                   m_iPitchLeft, m_iPitchRight, m_iPitchOffsetLeft, m_iPitchOffsetRight,
                   m_dLeftVolumeOld, m_dRightVolumeOld, leds, calibLeft, calibRight,
                   build, selectorMoved, setlogVars, configVars, m_iFd, fillArg, jogLost>>

-----------------------------------------------------------------------------
(* evdev build: constructor, opendev, closedev, getNextEvent *)

\* a descriptor open() returns for the event device
OpenFd == 3

\* the LEDs opendev() turns off
EvdevOpenLeds ==
    {"kiHerculesLedLeftCueBtn", "kiHerculesLedRightCueBtn", "kiHerculesLedLeftPlay",
     "kiHerculesLedRightPlay", "kiHerculesLedLeftSync", "kiHerculesLedRightSync",
     "kiHerculesLedLeftHeadphone", "kiHerculesLedRightHeadphone"}

\* values an uninitialised m_dLeftVolumeOld / m_dRightVolumeOld may hold
\* (times 4): the filter's rest output, or something else
UninitVolumeOld == {0, 2}

\* HerculesLinux::HerculesLinux(), evdev build.  m_bHeadphoneLeft/Right and
\* m_dLeftVolumeOld/m_dRightVolumeOld are not set by this constructor.
\* m_iHerculesHeadphonesSelection, the Rotary calibrations and the locals of
\* the other build's run() are never read in this build.
InitEvdev ==
    /\ m_iHerculesHeadphonesSelection = "SPLIT"
    /\ m_bHeadphoneLeft \in BOOLEAN
    /\ m_bHeadphoneRight \in BOOLEAN
    /\ m_dJogLeftOld = 0
    /\ m_dJogRightOld = 0
    /\ m_iJogLeft = -1
    /\ m_iJogRight = -1
    /\ m_iPitchLeft = 127
    /\ m_iPitchRight = 127
    /\ m_iPitchOffsetLeft = kiPitchUninitialized
    /\ m_iPitchOffsetRight = kiPitchUninitialized
    /\ m_dLeftVolumeOld \in UninitVolumeOld
    /\ m_dRightVolumeOld \in UninitVolumeOld
    /\ leds = {}
    /\ calibLeft = 0
    /\ calibRight = 0
    /\ leftJogProcessing = FALSE
    /\ rightJogProcessing = FALSE
    /\ runPc = "idle"
    /\ build = "evdev"
    /\ m_iFd = -1
    /\ fillArg = 0
    /\ jogLost = 0
    /\ filterCalls = <<>>
    /\ selectorMoved = FALSE
    /\ rotaryBuf = NoHistory
    /\ SetlogUnused
    /\ ConfigUnused
    /\ ev = NoEvent
    /\ sent = <<>>
    /\ jogDelta = <<>>
    /\ pre = NoPre

\* double v = (ev.value+1)/(4.-((ev.value>224)*((ev.value-224)/16.))), times 4;
\* above 224 the quotient is kept to the quarter below
GedFormula(value) ==
    IF value > 224 THEN (64 * (value + 1)) \div (288 - value) ELSE value + 1

EvdevAbsCodes ==
    {"kiHerculesLeftTreble", "kiHerculesLeftMiddle", "kiHerculesLeftBass",
     "kiHerculesLeftVolume", "kiHerculesLeftPitch", "kiHerculesLeftJog",
     "kiHerculesRightTreble", "kiHerculesRightMiddle", "kiHerculesRightBass",
     "kiHerculesRightVolume", "kiHerculesRightPitch", "kiHerculesRightJog",
     "kiHerculesCrossfade", "UNKNOWN"}

\* sink writes of the EV_ABS cases that keep no decode state
EvdevAbsPlainWrites(code, value) ==
    CASE code = "kiHerculesLeftTreble" -> <<sendEvent(GedFormula(value), "m_pControlObjectLeftTreble")>>
      [] code = "kiHerculesLeftMiddle" -> <<sendEvent(GedFormula(value), "m_pControlObjectLeftMiddle")>>
      [] code = "kiHerculesLeftBass"   -> <<sendEvent(GedFormula(value), "m_pControlObjectLeftBass")>>
      [] code = "kiHerculesLeftVolume" -> <<sendEvent(2 * value, "m_pControlObjectLeftVolume")>>
      [] code = "kiHerculesRightTreble" -> <<sendEvent(GedFormula(value), "m_pControlObjectRightTreble")>>
      [] code = "kiHerculesRightMiddle" -> <<sendEvent(GedFormula(value), "m_pControlObjectRightMiddle")>>
      [] code = "kiHerculesRightBass"   -> <<sendEvent(GedFormula(value), "m_pControlObjectRightBass")>>
      [] code = "kiHerculesRightVolume" -> <<sendEvent(2 * value, "m_pControlObjectRightVolume")>>
      [] code = "kiHerculesCrossfade" -> <<sendEvent(2 * (value + 1), "m_pControlObjectCrossfade")>>
      [] OTHER -> <<>>

\* variant of getNextEventAbs: case kiHerculesRightJog also stores ev.value
\* in m_iJogLeft
getNextEventAbs_RightJogStoresLeft(code, value) ==
    /\ filterCalls' =
          CASE code = "kiHerculesLeftJog" ->
                 << RotaryCall("Left", "filter", JogDiff(m_iJogLeft, value)) >>
            [] code = "kiHerculesRightJog" ->
                 << RotaryCall("Right", "filter", JogDiff(m_iJogRight, value)) >>
            [] OTHER -> <<>>
    /\ rotaryBuf' = RotaryAfter(rotaryBuf, filterCalls')
    /\ build = "evdev"
    /\ runPc = "loop"
    /\ m_iFd > 0
    /\ UNCHANGED <<build, selectorMoved, setlogVars, configVars, m_iFd, fillArg, jogLost>>
    /\ \E dDiff \in RotaryReturnFor(code, rotaryBuf') :
        LET dl == JogDiff(m_iJogLeft, value)
            dr == JogDiff(m_iJogRight, value)
            pl == PitchChange(value, m_iPitchLeft, m_iPitchOffsetLeft)
            pr == PitchChange(value, m_iPitchRight, m_iPitchOffsetRight)
        IN  /\ ev' = [type |-> "EV_ABS", code |-> code, value |-> value]
            /\ pre' = CASE code = "kiHerculesLeftJog" -> Pre(m_iJogLeft, 0, 0)
                      [] code = "kiHerculesRightJog" -> Pre(m_iJogRight, 0, 0)
                      [] code = "kiHerculesLeftPitch" -> Pre(0, m_iPitchLeft, m_iPitchOffsetLeft)
                      [] code = "kiHerculesRightPitch" -> Pre(0, m_iPitchRight, m_iPitchOffsetRight)
                      [] OTHER -> Pre(0, 0, 0)
            /\ m_dLeftVolumeOld' =
                  IF code = "kiHerculesLeftVolume" THEN 2 * value ELSE m_dLeftVolumeOld
            /\ m_dRightVolumeOld' =
                  IF code = "kiHerculesRightVolume" THEN 2 * value ELSE m_dRightVolumeOld
            /\ m_iJogLeft' = IF code \in {"kiHerculesLeftJog", "kiHerculesRightJog"}
                             THEN value ELSE m_iJogLeft
            /\ m_iJogRight' = IF code = "kiHerculesRightJog" THEN value ELSE m_iJogRight
            /\ jogDelta' = CASE code = "kiHerculesLeftJog" -> <<[side |-> "Left", iDiff |-> dl]>>
                             [] code = "kiHerculesRightJog" -> <<[side |-> "Right", iDiff |-> dr]>>
                             [] OTHER -> <<>>
            /\ m_iPitchLeft' = IF code = "kiHerculesLeftPitch" THEN pl.prev ELSE m_iPitchLeft
            /\ m_iPitchOffsetLeft' =
                  IF code = "kiHerculesLeftPitch" THEN pl.off ELSE m_iPitchOffsetLeft
            /\ m_iPitchRight' = IF code = "kiHerculesRightPitch" THEN pr.prev ELSE m_iPitchRight
            /\ m_iPitchOffsetRight' =
                  IF code = "kiHerculesRightPitch" THEN pr.off ELSE m_iPitchOffsetRight
            /\ sent' = CASE code = "kiHerculesLeftPitch" ->
                              <<sendEvent(pl.ret4, "m_pControlObjectLeftPitch")>>
                         [] code = "kiHerculesRightPitch" ->
                              <<sendEvent(pr.ret4, "m_pControlObjectRightPitch")>>
                         [] code = "kiHerculesLeftJog" ->
                              <<sendEvent(dDiff, "m_pControlObjectLeftJog")>>
                         [] code = "kiHerculesRightJog" ->
                              <<sendEvent(dDiff, "m_pControlObjectRightJog")>>
                         [] OTHER -> EvdevAbsPlainWrites(code, value)
            /\ UNCHANGED <<m_iHerculesHeadphonesSelection, m_bHeadphoneLeft, m_bHeadphoneRight,
                           m_dJogLeftOld, m_dJogRightOld, leds, calibLeft, calibRight,
                           leftJogProcessing, rightJogProcessing, runPc>>

\* getNextEvent(), case EV_ABS; dDiff is what Rotary::filter returns
getNextEventAbs(code, value) ==
    /\ filterCalls' =
          CASE code = "kiHerculesLeftJog" ->
                 << RotaryCall("Left", "filter", JogDiff(m_iJogLeft, value)) >>
            [] code = "kiHerculesRightJog" ->
                 << RotaryCall("Right", "filter", JogDiff(m_iJogRight, value)) >>
            [] OTHER -> <<>>
    /\ rotaryBuf' = RotaryAfter(rotaryBuf, filterCalls')
    /\ build = "evdev"
    /\ runPc = "loop"
    /\ m_iFd > 0
    /\ UNCHANGED <<build, selectorMoved, setlogVars, configVars, m_iFd, fillArg, jogLost>>
    /\ \E dDiff \in RotaryReturnFor(code, rotaryBuf') :
        LET dl == JogDiff(m_iJogLeft, value)
            dr == JogDiff(m_iJogRight, value)
            pl == PitchChange(value, m_iPitchLeft, m_iPitchOffsetLeft)
            pr == PitchChange(value, m_iPitchRight, m_iPitchOffsetRight)
        IN  /\ ev' = [type |-> "EV_ABS", code |-> code, value |-> value]
            /\ pre' = CASE code = "kiHerculesLeftJog" -> Pre(m_iJogLeft, 0, 0)
                      [] code = "kiHerculesRightJog" -> Pre(m_iJogRight, 0, 0)
                      [] code = "kiHerculesLeftPitch" -> Pre(0, m_iPitchLeft, m_iPitchOffsetLeft)
                      [] code = "kiHerculesRightPitch" -> Pre(0, m_iPitchRight, m_iPitchOffsetRight)
                      [] OTHER -> Pre(0, 0, 0)
            /\ m_dLeftVolumeOld' =
                  IF code = "kiHerculesLeftVolume" THEN 2 * value ELSE m_dLeftVolumeOld
            /\ m_dRightVolumeOld' =
                  IF code = "kiHerculesRightVolume" THEN 2 * value ELSE m_dRightVolumeOld
            /\ m_iJogLeft' = IF code = "kiHerculesLeftJog" THEN value ELSE m_iJogLeft
            /\ m_iJogRight' = IF code = "kiHerculesRightJog" THEN value ELSE m_iJogRight
            /\ jogDelta' = CASE code = "kiHerculesLeftJog" -> <<[side |-> "Left", iDiff |-> dl]>>
                             [] code = "kiHerculesRightJog" -> <<[side |-> "Right", iDiff |-> dr]>>
                             [] OTHER -> <<>>
            /\ m_iPitchLeft' = IF code = "kiHerculesLeftPitch" THEN pl.prev ELSE m_iPitchLeft
            /\ m_iPitchOffsetLeft' =
                  IF code = "kiHerculesLeftPitch" THEN pl.off ELSE m_iPitchOffsetLeft
            /\ m_iPitchRight' = IF code = "kiHerculesRightPitch" THEN pr.prev ELSE m_iPitchRight
            /\ m_iPitchOffsetRight' =
                  IF code = "kiHerculesRightPitch" THEN pr.off ELSE m_iPitchOffsetRight
            /\ sent' = CASE code = "kiHerculesLeftPitch" ->
                              <<sendEvent(pl.ret4, "m_pControlObjectLeftPitch")>>
                         [] code = "kiHerculesRightPitch" ->
                              <<sendEvent(pr.ret4, "m_pControlObjectRightPitch")>>
                         [] code = "kiHerculesLeftJog" ->
                              <<sendEvent(dDiff, "m_pControlObjectLeftJog")>>
                         [] code = "kiHerculesRightJog" ->
                              <<sendEvent(dDiff, "m_pControlObjectRightJog")>>
                         [] OTHER -> EvdevAbsPlainWrites(code, value)
            /\ UNCHANGED <<m_iHerculesHeadphonesSelection, m_bHeadphoneLeft, m_bHeadphoneRight,
                           m_dJogLeftOld, m_dJogRightOld, leds, calibLeft, calibRight,
                           leftJogProcessing, rightJogProcessing, runPc>>

\* getNextEvent(), select() returned v <= 0: both filters run on a zero input
getNextEventTimeout ==
    /\ filterCalls' = << RotaryCall("Left", "filter", 0), RotaryCall("Right", "filter", 0) >>
    /\ rotaryBuf' = RotaryAfter(rotaryBuf, filterCalls')
    /\ build = "evdev"
    /\ runPc = "loop"
    /\ UNCHANGED <<build, selectorMoved, setlogVars, configVars, m_iFd, fillArg, jogLost>>
    /\ \E l \in RotaryReturn(rotaryBuf'.Left), r \in RotaryReturn(rotaryBuf'.Right) :
        /\ ev' = [type |-> "timeout", code |-> "none", value |-> 0]
        /\ pre' = Pre(0, 0, 0)
        /\ sent' = (IF l # 0 \/ l # m_dLeftVolumeOld
                    THEN <<sendEvent(l, "m_pControlObjectLeftJog")>> ELSE <<>>)
                   \o (IF r # 0 \/ r # m_dRightVolumeOld
                       THEN <<sendEvent(r, "m_pControlObjectRightJog")>> ELSE <<>>)
        /\ m_dLeftVolumeOld' = l
        /\ m_dRightVolumeOld' = r
        /\ jogDelta' = <<>>
        /\ UNCHANGED <<m_iHerculesHeadphonesSelection, m_bHeadphoneLeft, m_bHeadphoneRight,
                       m_dJogLeftOld, m_dJogRightOld, m_iJogLeft, m_iJogRight,
                       m_iPitchLeft, m_iPitchRight, m_iPitchOffsetLeft,
                       m_iPitchOffsetRight, leds, calibLeft, calibRight,
                       leftJogProcessing, rightJogProcessing, runPc>>

EvdevKeyCodes ==
    {"kiHerculesLeftBtnPitchBendMinus", "kiHerculesLeftBtnPitchBendPlus", "kiHerculesLeftBtnTrackNext",
     "kiHerculesLeftBtnTrackPrev", "kiHerculesLeftBtnCue", "kiHerculesLeftBtnPlay",
     "kiHerculesLeftBtnAutobeat", "kiHerculesLeftBtnMasterTempo", "kiHerculesLeftBtn1",
     "kiHerculesLeftBtn2", "kiHerculesLeftBtn3", "kiHerculesLeftBtnFx",
     "kiHerculesLeftBtnHeadphone", "kiHerculesRightBtnPitchBendMinus", "kiHerculesRightBtnPitchBendPlus",
     "kiHerculesRightBtnTrackNext", "kiHerculesRightBtnTrackPrev", "kiHerculesRightBtnCue",
     "kiHerculesRightBtnPlay", "kiHerculesRightBtnAutobeat", "kiHerculesRightBtnMasterTempo",
     "kiHerculesRightBtn1", "kiHerculesRightBtn2", "kiHerculesRightBtn3",
     "kiHerculesRightBtnFx", "kiHerculesRightBtnHeadphone",
     "UNKNOWN"}

\* sink writes of EV_KEY with ev.value == 1
EvdevKeyPressWrites(code) ==
    CASE code = "kiHerculesLeftBtnPitchBendMinus" -> <<sendButtonEvent(TRUE, "m_pControlObjectLeftBtnPitchBendMinus")>>
      [] code = "kiHerculesLeftBtnPitchBendPlus" -> <<sendButtonEvent(TRUE, "m_pControlObjectLeftBtnPitchBendPlus")>>
      [] code = "kiHerculesLeftBtnTrackNext" -> <<sendButtonEvent(TRUE, "m_pControlObjectLeftBtnTrackNext")>>
      [] code = "kiHerculesLeftBtnTrackPrev" -> <<sendButtonEvent(TRUE, "m_pControlObjectLeftBtnTrackPrev")>>
      [] code = "kiHerculesLeftBtnCue" -> <<sendButtonEvent(TRUE, "m_pControlObjectLeftBtnCue")>>
      [] code = "kiHerculesLeftBtnPlay" -> <<sendButtonEvent(TRUE, "m_pControlObjectLeftBtnPlay")>>
      [] code = "kiHerculesLeftBtnAutobeat" -> <<sendButtonEvent(TRUE, "m_pControlObjectLeftBtnAutobeat")>>
      [] code = "kiHerculesLeftBtn1" -> <<sendButtonEvent(TRUE, "m_pControlObjectLeftBtn1")>>
      [] code = "kiHerculesLeftBtn2" -> <<sendButtonEvent(TRUE, "m_pControlObjectLeftBtn2")>>
      [] code = "kiHerculesLeftBtn3" -> <<sendButtonEvent(TRUE, "m_pControlObjectLeftBtn3")>>
      [] code = "kiHerculesLeftBtnFx" -> <<sendButtonEvent(TRUE, "m_pControlObjectLeftBtnFx")>>
      [] code = "kiHerculesLeftBtnHeadphone" -> <<sendButtonEvent(TRUE, "m_pControlObjectLeftBtnHeadphone")>>
      [] code = "kiHerculesRightBtnPitchBendMinus" -> <<sendButtonEvent(TRUE, "m_pControlObjectRightBtnPitchBendMinus")>>
      [] code = "kiHerculesRightBtnPitchBendPlus" -> <<sendButtonEvent(TRUE, "m_pControlObjectRightBtnPitchBendPlus")>>
      [] code = "kiHerculesRightBtnTrackNext" -> <<sendButtonEvent(TRUE, "m_pControlObjectRightBtnTrackNext")>>
      [] code = "kiHerculesRightBtnTrackPrev" -> <<sendButtonEvent(TRUE, "m_pControlObjectRightBtnTrackPrev")>>
      [] code = "kiHerculesRightBtnCue" -> <<sendButtonEvent(TRUE, "m_pControlObjectRightBtnCue")>>
      [] code = "kiHerculesRightBtnPlay" -> <<sendButtonEvent(TRUE, "m_pControlObjectRightBtnPlay")>>
      [] code = "kiHerculesRightBtnAutobeat" -> <<sendButtonEvent(TRUE, "m_pControlObjectRightBtnAutobeat")>>
      [] code = "kiHerculesRightBtn1" -> <<sendButtonEvent(TRUE, "m_pControlObjectRightBtn1")>>
      [] code = "kiHerculesRightBtn2" -> <<sendButtonEvent(TRUE, "m_pControlObjectRightBtn2")>>
      [] code = "kiHerculesRightBtn3" -> <<sendButtonEvent(TRUE, "m_pControlObjectRightBtn3")>>
      [] code = "kiHerculesRightBtnFx" -> <<sendButtonEvent(TRUE, "m_pControlObjectRightBtnFx")>>
      [] code = "kiHerculesRightBtnHeadphone" -> <<sendButtonEvent(TRUE, "m_pControlObjectRightBtnHeadphone")>>
      [] OTHER -> <<>>

\* sink writes of EV_KEY with ev.value != 1
EvdevKeyReleaseWrites(code) ==
    CASE code = "kiHerculesLeftBtnPitchBendMinus" -> <<sendButtonEvent(FALSE, "m_pControlObjectLeftBtnPitchBendMinus")>>
      [] code = "kiHerculesLeftBtnPitchBendPlus" -> <<sendButtonEvent(FALSE, "m_pControlObjectLeftBtnPitchBendPlus")>>
      [] code = "kiHerculesLeftBtnCue" -> <<sendButtonEvent(FALSE, "m_pControlObjectLeftBtnCue")>>
      [] code = "kiHerculesLeftBtnPlay" -> <<sendButtonEvent(FALSE, "m_pControlObjectLeftBtnPlay")>>
      [] code = "kiHerculesLeftBtnAutobeat" -> <<sendButtonEvent(FALSE, "m_pControlObjectLeftBtnAutobeat")>>
      [] code = "kiHerculesLeftBtn1" -> <<sendButtonEvent(FALSE, "m_pControlObjectLeftBtn1")>>
      [] code = "kiHerculesLeftBtn2" -> <<sendButtonEvent(FALSE, "m_pControlObjectLeftBtn2")>>
      [] code = "kiHerculesLeftBtn3" -> <<sendButtonEvent(FALSE, "m_pControlObjectLeftBtn3")>>
      [] code = "kiHerculesLeftBtnFx" -> <<sendButtonEvent(FALSE, "m_pControlObjectLeftBtnFx")>>
      [] code = "kiHerculesLeftBtnHeadphone" ->
            \* no break: control falls into case kiHerculesRightBtnPitchBendMinus
            <<sendButtonEvent(FALSE, "m_pControlObjectLeftBtnHeadphone"),
              sendButtonEvent(FALSE, "m_pControlObjectRightBtnPitchBendMinus")>>
      [] code = "kiHerculesRightBtnPitchBendMinus" -> <<sendButtonEvent(FALSE, "m_pControlObjectRightBtnPitchBendMinus")>>
      [] code = "kiHerculesRightBtnPitchBendPlus" -> <<sendButtonEvent(FALSE, "m_pControlObjectRightBtnPitchBendPlus")>>
      [] code = "kiHerculesRightBtnCue" -> <<sendButtonEvent(FALSE, "m_pControlObjectRightBtnCue")>>
      [] code = "kiHerculesRightBtnPlay" -> <<sendButtonEvent(FALSE, "m_pControlObjectRightBtnPlay")>>
      [] code = "kiHerculesRightBtnAutobeat" -> <<sendButtonEvent(FALSE, "m_pControlObjectRightBtnAutobeat")>>
      [] code = "kiHerculesRightBtn1" -> <<sendButtonEvent(FALSE, "m_pControlObjectRightBtn1")>>
      [] code = "kiHerculesRightBtn2" -> <<sendButtonEvent(FALSE, "m_pControlObjectRightBtn2")>>
      [] code = "kiHerculesRightBtn3" -> <<sendButtonEvent(FALSE, "m_pControlObjectRightBtn3")>>
      [] code = "kiHerculesRightBtnFx" -> <<sendButtonEvent(FALSE, "m_pControlObjectRightBtnFx")>>
      [] code = "kiHerculesRightBtnHeadphone" -> <<sendButtonEvent(FALSE, "m_pControlObjectRightBtnHeadphone")>>
      [] OTHER -> <<>>

\* getNextEvent(), case EV_KEY.  m_bSyncLeft/Right, m_iLeftFxMode/m_iRightFxMode
\* and changeJogMode() (class Hercules) are left out: nothing here reads them.
getNextEventKey(code, value) ==
    /\ filterCalls' = <<>>
    /\ rotaryBuf' = RotaryAfter(rotaryBuf, filterCalls')
    /\ build = "evdev"
    /\ runPc = "loop"
    /\ m_iFd > 0
    /\ UNCHANGED <<build, selectorMoved, setlogVars, configVars, m_iFd, fillArg, jogLost>>
    /\ ev' = [type |-> "EV_KEY", code |-> code, value |-> value]
    /\ pre' = Pre(0, 0, 0)
    /\ sent' = IF value = 1 THEN EvdevKeyPressWrites(code) ELSE EvdevKeyReleaseWrites(code)
    /\ m_bHeadphoneLeft' =
          IF value = 1 /\ code = "kiHerculesLeftBtnHeadphone"
          THEN ~m_bHeadphoneLeft ELSE m_bHeadphoneLeft
    /\ m_bHeadphoneRight' =
          IF value = 1 /\ code = "kiHerculesRightBtnHeadphone"
          THEN ~m_bHeadphoneRight ELSE m_bHeadphoneRight
    /\ leds' =
          IF value = 1 /\ code = "kiHerculesLeftBtnHeadphone"
          THEN IF ~m_bHeadphoneLeft
               THEN leds \cup {"kiHerculesLedLeftHeadphone"}
               ELSE leds \ {"kiHerculesLedLeftHeadphone"}
          ELSE leds
    /\ jogDelta' = <<>>
    /\ UNCHANGED <<m_iHerculesHeadphonesSelection, m_dJogLeftOld, m_dJogRightOld,
                   m_iJogLeft, m_iJogRight, m_iPitchLeft, m_iPitchRight,
                   m_iPitchOffsetLeft, m_iPitchOffsetRight, m_dLeftVolumeOld,
                   m_dRightVolumeOld, calibLeft, calibRight,
                   leftJogProcessing, rightJogProcessing, runPc>>

\* HerculesLinux::opendev(), evdev build: m_iFd = opendev(i) for the event
\* devices in turn; `found` says whether one of them is a Hercules console.
\* start() starts the thread run() unless it is running already.
opendevEvdev ==
    /\ filterCalls' = <<>>
    /\ rotaryBuf' = RotaryAfter(rotaryBuf, filterCalls')
    /\ build = "evdev"
    /\ \E found \in BOOLEAN :
        /\ m_iFd' = IF found THEN OpenFd ELSE -1
        /\ runPc' = IF found THEN "loop" ELSE runPc
        /\ leds' = IF found THEN leds \ EvdevOpenLeds ELSE leds
    /\ ev' = [type |-> "opendev", code |-> "none", value |-> 0]
    /\ pre' = Pre(0, 0, 0)
    /\ sent' = <<>>
    /\ jogDelta' = <<>>
    /\ UNCHANGED <<m_iHerculesHeadphonesSelection, m_bHeadphoneLeft, m_bHeadphoneRight,
                   m_dJogLeftOld, m_dJogRightOld, m_iJogLeft, m_iJogRight,
                   m_iPitchLeft, m_iPitchRight, m_iPitchOffsetLeft, m_iPitchOffsetRight,
                   m_dLeftVolumeOld, m_dRightVolumeOld, calibLeft, calibRight,
                   leftJogProcessing, rightJogProcessing, build, selectorMoved, setlogVars, configVars, fillArg, jogLost>>

\* HerculesLinux::closedev(), evdev build.  m_iId and sqlOpenDevs are left
\* out: only opendev(int) reads them.  The thread run() is not told.
closedevEvdev ==
    /\ filterCalls' = <<>>
    /\ rotaryBuf' = RotaryAfter(rotaryBuf, filterCalls')
    /\ build = "evdev"
    /\ m_iFd' = -1
    /\ ev' = [type |-> "closedev", code |-> "none", value |-> 0]
    /\ pre' = Pre(0, 0, 0)
    /\ sent' = <<>>
    /\ jogDelta' = <<>>
    /\ UNCHANGED <<m_iHerculesHeadphonesSelection, m_bHeadphoneLeft, m_bHeadphoneRight,
                   m_dJogLeftOld, m_dJogRightOld, m_iJogLeft, m_iJogRight,
                   m_iPitchLeft, m_iPitchRight, m_iPitchOffsetLeft, m_iPitchOffsetRight,
                   m_dLeftVolumeOld, m_dRightVolumeOld, leds, calibLeft, calibRight,
                   leftJogProcessing, rightJogProcessing, runPc,
                   build, selectorMoved, setlogVars, configVars, fillArg, jogLost>>

-----------------------------------------------------------------------------
(* Specifications *)

\* events of the headphone selector and of the two monitor buttons, and one
\* of a code no case handles
HeadphoneEventCodes ==
    {"103", "102", "101", "100", "LEFT_MONITOR", "RIGHT_MONITOR", "UNKNOWN"}

HeadphoneEventValues == {0, 1, 2, 3, 4, 8}

NextHeadphone ==
    \/ opendevDjc
    \/ \E first \in HeadphoneEventCodes, second \in HeadphoneEventValues :
        consoleEvent(first, second)

\* libdjconsole build: the headphone selector and the monitor buttons
SpecHeadphone == InitDjc /\ [][NextHeadphone]_vars

\* evdev build: events of the pitch knobs.  PitchChange works on the members
\* of one side only, so a run turns one knob: the left one while the right
\* one is untouched, or the right one while the left one is untouched.
NextPitch ==
    \/ opendevEvdev
    \/ \E value \in PitchRaws :
        \/ /\ m_iPitchOffsetRight = kiPitchUninitialized
           /\ getNextEventAbs("kiHerculesLeftPitch", value)
           /\ m_iPitchOffsetLeft' <= MaxPitchOffset
        \/ /\ m_iPitchOffsetLeft = kiPitchUninitialized
           /\ getNextEventAbs("kiHerculesRightPitch", value)
           /\ m_iPitchOffsetRight' <= MaxPitchOffset

SpecPitch == InitEvdev /\ [][NextPitch]_vars

\* evdev build: the first pitch event after construction, with every raw
\* value of the 8-bit counter, on either knob
NextPitchFirst ==
    \/ opendevEvdev
    \/ \E value \in 0..MaxRaw :
        /\ m_iPitchOffsetLeft = kiPitchUninitialized
        /\ m_iPitchOffsetRight = kiPitchUninitialized
        /\ \/ getNextEventAbs("kiHerculesLeftPitch", value)
           \/ getNextEventAbs("kiHerculesRightPitch", value)

SpecPitchFirst == InitEvdev /\ [][NextPitchFirst]_vars

\* the raw values one detent away from prev, or at it, on the 8-bit counter
StepRaws(prev) == {(prev + d) % (MaxRaw + 1) : d \in {-1, 0, 1}}

\* PitchChange reads none of the members the constructor leaves unset; the
\* runs of a slowly turned knob start with one value of each
InitPitchSteps ==
    /\ InitEvdev
    /\ ~m_bHeadphoneLeft /\ ~m_bHeadphoneRight
    /\ m_dLeftVolumeOld = 0 /\ m_dRightVolumeOld = 0

\* evdev build: one pitch knob turned slowly.  The first event of the knob
\* has any raw value; every later one is at most one detent away from the
\* one before it, the counter wrapping between 255 and 0.
NextPitchSteps ==
    \/ opendevEvdev
    \/ /\ m_iPitchOffsetRight = kiPitchUninitialized
       /\ \E value \in (IF m_iPitchOffsetLeft = kiPitchUninitialized
                        THEN 0..MaxRaw ELSE StepRaws(m_iPitchLeft)) :
            getNextEventAbs("kiHerculesLeftPitch", value)
    \/ /\ m_iPitchOffsetLeft = kiPitchUninitialized
       /\ \E value \in (IF m_iPitchOffsetRight = kiPitchUninitialized
                        THEN 0..MaxRaw ELSE StepRaws(m_iPitchRight)) :
            getNextEventAbs("kiHerculesRightPitch", value)

SpecPitchSteps == InitPitchSteps /\ [][NextPitchSteps]_vars

\* evdev build: events of the jog wheels, one wheel per run
NextJogEvdev ==
    \/ opendevEvdev
    \/ \E value \in JogRaws :
        \/ /\ m_iJogRight < 0
           /\ getNextEventAbs("kiHerculesLeftJog", value)
        \/ /\ m_iJogLeft < 0
           /\ getNextEventAbs("kiHerculesRightJog", value)

SpecJogEvdev == InitEvdev /\ [][NextJogEvdev]_vars

\* libdjconsole build: events of the jog wheels, one wheel per run, and the
\* thread run() that drains the accumulators
NextJogDjc ==
    \/ \E value \in JogRaws :
        \/ /\ m_dJogRightOld < 0
           /\ consoleEvent("LEFT_JOG", value)
           /\ Abs(m_iJogLeft') <= MaxJogAccum
        \/ /\ m_dJogLeftOld < 0
           /\ consoleEvent("RIGHT_JOG", value)
           /\ Abs(m_iJogRight') <= MaxJogAccum
    \/ opendevDjc
    \/ RunInit
    \/ RunTick

SpecJogDjc == InitDjc /\ [][NextJogDjc]_vars

\* either build: events of the jog wheels
InitBoth == InitDjc \/ InitEvdev

NextJog == NextJogDjc \/ NextJogEvdev

SpecJog == InitBoth /\ [][NextJog]_vars

\* Either build with the device open and the raw value p stored as the
\* previous value of both wheels (p = -1: no jog event yet; the
\* libdjconsole build never stores 0, see consoleEvent).  The members no jog
\* case reads are as in InitDjc, and FALSE / 0 where InitEvdev leaves them
\* open.
InitJogPairs ==
    /\ \E p \in -1..MaxRaw :
        \/ /\ build = "evdev"
           /\ m_iJogLeft = p
           /\ m_iJogRight = p
           /\ m_dJogLeftOld = 0
           /\ m_dJogRightOld = 0
           /\ m_iPitchLeft = 127
           /\ m_iPitchRight = 127
           /\ m_iPitchOffsetLeft = kiPitchUninitialized
           /\ m_iPitchOffsetRight = kiPitchUninitialized
           /\ m_iFd = OpenFd
           /\ runPc = "loop"
        \/ /\ build = "libdjconsole"
           /\ p # 0
           /\ m_dJogLeftOld = p
           /\ m_dJogRightOld = p
           /\ m_iJogLeft = 0
           /\ m_iJogRight = 0
           /\ m_iPitchLeft = -1
           /\ m_iPitchRight = -1
           /\ m_iPitchOffsetLeft = 0
           /\ m_iPitchOffsetRight = 0
           /\ m_iFd = -1
           /\ runPc = "start"
    /\ m_iHerculesHeadphonesSelection = "SPLIT"
    /\ m_bHeadphoneLeft = FALSE
    /\ m_bHeadphoneRight = FALSE
    /\ m_dLeftVolumeOld = 0
    /\ m_dRightVolumeOld = 0
    /\ leds = {}
    /\ calibLeft = 0
    /\ calibRight = 0
    /\ leftJogProcessing = FALSE
    /\ rightJogProcessing = FALSE
    /\ fillArg = 0
    /\ jogLost = 0
    /\ filterCalls = <<>>
    /\ selectorMoved = FALSE
    /\ rotaryBuf = NoHistory
    /\ SetlogUnused
    /\ ConfigUnused
    /\ ev = NoEvent
    /\ sent = <<>>
    /\ jogDelta = <<>>
    /\ pre = NoPre

\* one jog event with any raw value of the 8-bit counter, on either wheel
NextJogPairs ==
    \E value \in 0..MaxRaw :
        /\ ev = NoEvent
        /\ \/ consoleEvent("LEFT_JOG", value)
           \/ consoleEvent("RIGHT_JOG", value)
           \/ getNextEventAbs("kiHerculesLeftJog", value)
           \/ getNextEventAbs("kiHerculesRightJog", value)

\* the jog delta on every pair (previous raw value, raw value)
SpecJogPairs == InitJogPairs /\ [][NextJogPairs]_vars

\* LED ids the libdjconsole build lights in run() and for LEFT_1..RIGHT_3;
\* no case of consoleEvent has one of them as its label
DjcLampCodes ==
    {"LEFT_FX", "LEFT_FX_CUE", "LEFT_LOOP", "RIGHT_FX", "RIGHT_FX_CUE", "RIGHT_LOOP"}

\* values of the events fed to the dispatchers: both ends of the 8-bit
\* range, the middle, and the first value above (7/8)*256
DispatchRaws == {0, 1, 128, 225, 255}

\* libdjconsole build: events of the faders, knobs and buttons that keep no
\* decode state, and of codes no case handles.  A run operates one control
\* before run() has set up the LEDs and one after it.
NextDispatchDjc ==
    \/ /\ runPc = "idle"
       /\ opendevDjc
    \/ RunInit
    \/ \E first \in (DjcCodes \cup DjcLampCodes)
                      \ {"103", "102", "101", "100",
                         "LEFT_JOG", "RIGHT_JOG", "LEFT_PITCH", "RIGHT_PITCH"},
          second \in DispatchRaws :
            /\ ev.type = "console" => ev.code = first
            /\ consoleEvent(first, second)

SpecDispatchDjc == InitDjc /\ [][NextDispatchDjc]_vars

\* events with a nonzero value that leave something in the decode state and
\* in the LEDs: the left wheel, the right pitch knob, the headphone selector
\* at position 102, a monitor button (LED and headphone boolean), a
\* sensitivity button (lamp)
ReleaseSetUp ==
    {<<"LEFT_JOG", 1>>, <<"LEFT_JOG", 255>>, <<"RIGHT_PITCH", 255>>,
     <<"102", 8>>, <<"LEFT_MONITOR", 1>>, <<"RIGHT_2", 1>>}

\* libdjconsole build: the events of ReleaseSetUp, and events with value 0
\* of every control id in any order with them
NextRelease ==
    \/ /\ runPc = "idle"
       /\ opendevDjc
    \/ RunInit
    \/ \E e \in ReleaseSetUp :
        /\ consoleEvent(e[1], e[2])
        /\ Abs(m_iJogLeft') <= MaxFrameAccum
    \/ \E first \in DjcCodes \cup DjcLampCodes :
        consoleEvent(first, 0)

SpecRelease == InitDjc /\ [][NextRelease]_vars

\* evdev build: EV_ABS events of the faders and knobs that keep no decode
\* state, EV_KEY presses and releases, and events of codes no case handles
NextDispatchEvdev ==
    \/ opendevEvdev
    \/ \E code \in EvdevAbsCodes \ {"kiHerculesLeftPitch", "kiHerculesRightPitch",
                                     "kiHerculesLeftJog", "kiHerculesRightJog"},
          value \in DispatchRaws :
            getNextEventAbs(code, value)
    \/ \E code \in EvdevKeyCodes, value \in {0, 1} :
            getNextEventKey(code, value)

SpecDispatchEvdev == InitEvdev /\ [][NextDispatchEvdev]_vars

\* raw values fed to the jog and pitch cases where all four are operated:
\* a pair across the wrap of the 8-bit counter, and for PitchChange of the
\* evdev build the two ends (its rules fire on 0 <-> 255)
FrameRaws == {1, 255}

FramePitchRaws == {0, 255}

\* either build: events of both jog wheels and both pitch knobs in any order
NextFrame ==
    \/ opendevEvdev
    \/ opendevDjc
    \/ \E value \in FrameRaws :
        \/ /\ consoleEvent("LEFT_JOG", value)
           /\ Abs(m_iJogLeft') <= MaxFrameAccum
        \/ /\ consoleEvent("RIGHT_JOG", value)
           /\ Abs(m_iJogRight') <= MaxFrameAccum
        \/ consoleEvent("LEFT_PITCH", value)
        \/ consoleEvent("RIGHT_PITCH", value)
        \/ getNextEventAbs("kiHerculesLeftJog", value)
        \/ getNextEventAbs("kiHerculesRightJog", value)
    \/ \E value \in FramePitchRaws :
        \/ /\ getNextEventAbs("kiHerculesLeftPitch", value)
           /\ Abs(m_iPitchOffsetLeft') <= MaxPitchOffset
        \/ /\ getNextEventAbs("kiHerculesRightPitch", value)
           /\ Abs(m_iPitchOffsetRight') <= MaxPitchOffset

SpecFrame == InitBoth /\ [][NextFrame]_vars

\* the state InitDjc describes, with the buffers of the two Rotary objects
\* followed: they hold no motion when the driver is constructed
InitDrain ==
    /\ m_iHerculesHeadphonesSelection \in HeadphoneStates
    /\ m_bHeadphoneLeft = FALSE
    /\ m_bHeadphoneRight = FALSE
    /\ m_dJogLeftOld = -1
    /\ m_dJogRightOld = -1
    /\ m_iJogLeft = 0
    /\ m_iJogRight = 0
    /\ m_iPitchLeft = -1
    /\ m_iPitchRight = -1
    /\ m_iPitchOffsetLeft = 0
    /\ m_iPitchOffsetRight = 0
    /\ m_dLeftVolumeOld = 0
    /\ m_dRightVolumeOld = 0
    /\ leds = {}
    /\ calibLeft = 0
    /\ calibRight = 0
    /\ leftJogProcessing = FALSE
    /\ rightJogProcessing = FALSE
    /\ runPc = "idle"
    /\ build = "libdjconsole"
    /\ m_iFd = -1
    /\ fillArg = 0
    /\ jogLost = 0
    /\ filterCalls = <<>>
    /\ selectorMoved = FALSE
    /\ rotaryBuf = RotaryIdle
    /\ SetlogUnused
    /\ ConfigUnused
    /\ ev = NoEvent
    /\ sent = <<>>
    /\ jogDelta = <<>>
    /\ pre = NoPre

\* libdjconsole build: jog events of both wheels and the iterations of the
\* loop of run(), each taken as a whole
NextDrain ==
    \/ /\ runPc = "idle"
       /\ opendevDjc
    \/ RunInit
    \/ \E value \in FrameRaws :
        \/ /\ consoleEvent("LEFT_JOG", value)
           /\ Abs(m_iJogLeft') <= MaxFrameAccum
        \/ /\ consoleEvent("RIGHT_JOG", value)
           /\ Abs(m_iJogRight') <= MaxFrameAccum
    \/ RunTick

SpecDrain == InitDrain /\ [][NextDrain]_vars

\* the state InitEvdev describes, with the buffers of the two Rotary objects
\* followed (no motion yet) and with the members m_dLeftVolumeOld /
\* m_dRightVolumeOld, which the constructor leaves unset, holding 0, the
\* value a timeout at rest stores in them
InitVolume ==
    /\ m_iHerculesHeadphonesSelection = "SPLIT"
    /\ m_bHeadphoneLeft \in BOOLEAN
    /\ m_bHeadphoneRight \in BOOLEAN
    /\ m_dJogLeftOld = 0
    /\ m_dJogRightOld = 0
    /\ m_iJogLeft = -1
    /\ m_iJogRight = -1
    /\ m_iPitchLeft = 127
    /\ m_iPitchRight = 127
    /\ m_iPitchOffsetLeft = kiPitchUninitialized
    /\ m_iPitchOffsetRight = kiPitchUninitialized
    /\ m_dLeftVolumeOld = 0
    /\ m_dRightVolumeOld = 0
    /\ leds = {}
    /\ calibLeft = 0
    /\ calibRight = 0
    /\ leftJogProcessing = FALSE
    /\ rightJogProcessing = FALSE
    /\ runPc = "idle"
    /\ build = "evdev"
    /\ m_iFd = -1
    /\ fillArg = 0
    /\ jogLost = 0
    /\ filterCalls = <<>>
    /\ selectorMoved = FALSE
    /\ rotaryBuf = RotaryIdle
    /\ SetlogUnused
    /\ ConfigUnused
    /\ ev = NoEvent
    /\ sent = <<>>
    /\ jogDelta = <<>>
    /\ pre = NoPre

\* evdev build, both wheels at rest: events of the two volume faders and
\* poll timeouts
NextVolume ==
    \/ opendevEvdev
    \/ \E code \in {"kiHerculesLeftVolume", "kiHerculesRightVolume"},
          value \in DispatchRaws :
            getNextEventAbs(code, value)
    \/ getNextEventTimeout

SpecVolume == InitVolume /\ [][NextVolume]_vars

\* libdjconsole build, left wheel: consoleEvent is called on the thread of
\* the libdjconsole callback while the thread run() executes its loop, so
\* an event may be handled between any two steps of run().  run() takes the
\* whole iteration at once only when it reads m_iJogLeft as 0.
NextRace ==
    \/ opendevDjc
    \/ RunInit
    \/ \E value \in FrameRaws :
        /\ consoleEvent("LEFT_JOG", value)
        /\ Abs(m_iJogLeft') <= MaxFrameAccum
    \/ RunFillLeft
    \/ /\ RunClearLeft
       /\ Abs(jogLost') <= MaxFrameAccum
    \/ /\ m_iJogLeft = 0
       /\ RunTick

SpecRace == InitDjc /\ [][NextRace]_vars

\* either build: opendev / closedev, and events of the left wheel and the
\* left pitch knob while the device is open
NextReconnect ==
    \/ opendevEvdev
    \/ closedevEvdev
    \/ opendevDjc
    \/ closedevDjc
    \/ \E value \in FrameRaws :
        \/ /\ consoleEvent("LEFT_JOG", value)
           /\ Abs(m_iJogLeft') <= MaxFrameAccum
        \/ consoleEvent("LEFT_PITCH", value)
        \/ getNextEventAbs("kiHerculesLeftJog", value)
    \/ \E value \in FramePitchRaws :
        /\ getNextEventAbs("kiHerculesLeftPitch", value)
        /\ Abs(m_iPitchOffsetLeft') <= MaxPitchOffset

SpecReconnect == InitBoth /\ [][NextReconnect]_vars

\* raw values of the volume events around closedev
CloseRaws == {0, 128}

\* either build: opendev (once) / closedev from the thread that owns the
\* driver, a fader and a wheel, and the loop of run()
NextClose ==
    \/ /\ runPc = "idle"
       /\ opendevEvdev
    \/ closedevEvdev
    \/ getNextEventTimeout
    \/ \E value \in CloseRaws : getNextEventAbs("kiHerculesLeftVolume", value)
    \/ /\ runPc = "idle"
       /\ opendevDjc
    \/ closedevDjc
    \/ RunInit
    \/ RunTick
    \/ \E value \in FrameRaws :
        /\ consoleEvent("LEFT_JOG", value)
        /\ Abs(m_iJogLeft') <= MaxFrameAccum

\* the loop of run() in either build: while (1) with msleep(64) (djc) or a
\* select() with a 10 ms timeout (evdev)
RunLoopStep == RunTick \/ getNextEventTimeout

\* The thread run() is scheduled again and again: a QThread the operating
\* system keeps running, whose loop body always returns.
SpecClose == InitBoth /\ [][NextClose]_vars /\ WF_vars(RunLoopStep)

-----------------------------------------------------------------------------
(* Headphone selector: properties of consoleEvent, cases 100..103 *)

SelectorCodes == {"103", "102", "101", "100"}

IsConsoleEvent(first, second) ==
    ev.type = "console" /\ ev.code = first /\ ev.value = second

\* the last handler call was a selector event that the selector accepts
\* from the state it found
SelectorAccepted ==
    \/ IsConsoleEvent("103", 4)
    \/ IsConsoleEvent("102", 8)
    \/ IsConsoleEvent("101", 2) /\ pre.sel \in {"DECK_A", "MIX"}
    \/ IsConsoleEvent("100", 1) /\ pre.sel = "DECK_B"

\* the headphone enables <<left, right>> of a selector state
SelectorConfig(sel) ==
    CASE sel = "SPLIT"  -> <<FALSE, FALSE>>
      [] sel = "MIX"    -> <<TRUE, TRUE>>
      [] sel = "DECK_A" -> <<TRUE, FALSE>>
      [] sel = "DECK_B" -> <<FALSE, TRUE>>

CountWrites(ws, w) == Cardinality({i \in 1..Len(ws) : ws[i] = w})

\* C1: the selector state changes only by (103,4) -> SPLIT and (102,8) -> MIX
\* from any state, (101,2) -> DECK_B from DECK_A or MIX, (100,1) -> DECK_A
\* from DECK_B; every other handler call leaves it as it was.  So from SPLIT
\* the events (103,4), (102,8), (101,2), (100,1) give SPLIT, MIX, DECK_B, DECK_A.
C1_SelectorTransitions ==
    ev.type # "none" =>
        m_iHerculesHeadphonesSelection =
            CASE IsConsoleEvent("103", 4) -> "SPLIT"
              [] IsConsoleEvent("102", 8) -> "MIX"
              [] IsConsoleEvent("101", 2) /\ pre.sel \in {"DECK_A", "MIX"} -> "DECK_B"
              [] IsConsoleEvent("100", 1) /\ pre.sel = "DECK_B" -> "DECK_A"
              [] OTHER -> pre.sel

\* (100,1) has taken the selector from DECK_B to DECK_A
C1_Witness ==
    /\ IsConsoleEvent("100", 1)
    /\ pre.sel = "DECK_B"
    /\ m_iHerculesHeadphonesSelection = "DECK_A"

\* C2: right after an accepted selector transition the two headphone
\* enables are the target state's configuration, whatever they were before
C2_EnablesMatchTarget ==
    SelectorAccepted =>
        <<m_bHeadphoneLeft, m_bHeadphoneRight>> =
            SelectorConfig(m_iHerculesHeadphonesSelection)

\* (100,1) accepted with both enables opposite to DECK_A's configuration
C2_Witness ==
    /\ IsConsoleEvent("100", 1)
    /\ pre.sel = "DECK_B"
    /\ ~pre.left /\ pre.right
    /\ m_bHeadphoneLeft /\ ~m_bHeadphoneRight

\* C3: a selector event rejected by its guard, or an event on 100..103 with
\* another value than the listed one, leaves the selector state and both
\* enables unchanged and emits no sink write
C3_RejectedIsNoOp ==
    LET rejected ==
            \/ IsConsoleEvent("101", 2) /\ pre.sel \in {"SPLIT", "DECK_B"}
            \/ IsConsoleEvent("100", 1) /\ pre.sel \in {"SPLIT", "MIX", "DECK_A"}
        otherValue ==
            /\ ev.type = "console"
            /\ \/ ev.code = "103" /\ ev.value # 4
               \/ ev.code = "102" /\ ev.value # 8
               \/ ev.code = "101" /\ ev.value # 2
               \/ ev.code = "100" /\ ev.value # 1
    IN  (rejected \/ otherValue) =>
            /\ m_iHerculesHeadphonesSelection = pre.sel
            /\ m_bHeadphoneLeft = pre.left
            /\ m_bHeadphoneRight = pre.right
            /\ sent = <<>>

\* (100,1) rejected in state MIX with both enables on
C3_Witness ==
    /\ IsConsoleEvent("100", 1)
    /\ pre.sel = "MIX"
    /\ pre.left /\ pre.right
    /\ m_iHerculesHeadphonesSelection = "MIX"

\* what an accepted selector transition writes: one headphone button write
\* for each enable that differed from the target configuration
C4_WritesOnlyDiffering ==
    SelectorAccepted =>
        LET target == SelectorConfig(m_iHerculesHeadphonesSelection)
            nl == IF pre.left # target[1] THEN 1 ELSE 0
            nr == IF pre.right # target[2] THEN 1 ELSE 0
        IN  /\ CountWrites(sent, LeftHeadphoneWrite) = nl
            /\ CountWrites(sent, RightHeadphoneWrite) = nr
            /\ Len(sent) = nl + nr

\* a selector event that repeats the event before it writes nothing
C4_RepeatWritesNothing ==
    (/\ ev'.type = "console"
     /\ ev'.code \in SelectorCodes
     /\ ev.type = "console"
     /\ ev'.code = ev.code
     /\ ev'.value = ev.value) => sent' = <<>>

\* C4: an accepted selector transition emits exactly one headphone button
\* write for each enable that differs from the target configuration and none
\* for one that matches; the same selector event delivered twice in a row
\* emits no write the second time
C4_ToggleOnlyWhatDiffers ==
    [](C4_WritesOnlyDiffering) /\ [][C4_RepeatWritesNothing]_vars

\* (101,2) accepted from MIX with both enables on: exactly one write
C4_Witness ==
    /\ IsConsoleEvent("101", 2)
    /\ pre.sel = "MIX"
    /\ pre.left /\ pre.right
    /\ sent = <<LeftHeadphoneWrite>>

-----------------------------------------------------------------------------
(* Pitch knobs: properties of the revised PitchChange (evdev build) *)

IsPitchEvent ==
    ev.type = "EV_ABS" /\ ev.code \in {"kiHerculesLeftPitch", "kiHerculesRightPitch"}

\* the pitch members of the side of the last event, after the call
PitchPreviousNow ==
    IF ev.code = "kiHerculesLeftPitch" THEN m_iPitchLeft ELSE m_iPitchRight

PitchOffsetNow ==
    IF ev.code = "kiHerculesLeftPitch" THEN m_iPitchOffsetLeft ELSE m_iPitchOffsetRight

PitchControl ==
    IF ev.code = "kiHerculesLeftPitch"
    THEN "m_pControlObjectLeftPitch" ELSE "m_pControlObjectRightPitch"

\* the offset stored when the rules are evaluated: m_iPitchOffset is a
\* reference to the member, which the initialisation has then already set
PitchOffsetRead ==
    IF pre.off = -9999 THEN 127 - ev.value ELSE pre.off

\* some rule's condition holds for the last pitch event
PitchRuleMatched ==
    LET p == pre.prev
        o == PitchOffsetRead
        r == ev.value
    IN  \/ p + o = 255 /\ p < r
        \/ p = 255 /\ r = 0
        \/ r = 255 /\ p = 0 /\ o >= 0
        \/ r < p /\ p + o = 0

\* C5: with p the stored previous value, o the stored offset and r the raw
\* value, the new offset is given by the first rule that matches, in the
\* order (1) p+o = 255 and p < r: 255-r; (2) p = 255 and r = 0: 255+o;
\* (3) r = 255 and p = 0 and o >= 0: o-255; (4) r < p and p+o = 0: -r; and
\* is o when none matches
C5_FirstMatchingRule ==
    IsPitchEvent =>
        LET p == pre.prev
            o == PitchOffsetRead
            r == ev.value
        IN  PitchOffsetNow =
                IF p + o = 255 /\ p < r THEN 255 - r
                ELSE IF p = 255 /\ r = 0 THEN 255 + o
                ELSE IF r = 255 /\ p = 0 /\ o >= 0 THEN o - 255
                ELSE IF r < p /\ p + o = 0 THEN 0 - r
                ELSE o

\* rule 3 fired: the knob went from raw 0 to raw 255 with offset 127
C5_Witness ==
    /\ IsPitchEvent
    /\ pre.prev = 0 /\ pre.off = 127 /\ ev.value = 255
    /\ PitchOffsetNow = -128

\* C6: from the constructed state (offset -9999) the first pitch event with
\* raw value r sets the offset to 127-r and returns 63.25 (4 * 63.25 = 253);
\* no rule changes the offset on that event
C6_FirstPitchEvent ==
    (IsPitchEvent /\ pre.off = -9999) =>
        /\ pre.prev = 127
        /\ PitchOffsetNow = 127 - ev.value
        /\ sent = <<sendEvent(253, PitchControl)>>

\* the first event has raw value 64: offset 63, 63.25 returned
C6_Witness ==
    /\ IsPitchEvent /\ pre.off = -9999 /\ ev.value = 64
    /\ PitchOffsetNow = 63
    /\ sent[1].val = 253

\* C7: after any sequence of pitch events previous+offset is in [0,255],
\* that is, the value returned is in [-0.25, 127.25]
C7_PitchInRange ==
    IsPitchEvent =>
        /\ PitchPreviousNow + PitchOffsetNow \in 0..255
        /\ sent[1].val \in -1..509

\* C8: after every pitch update the stored previous value is the raw value
\* of the event, whichever rule fired or none
C8_PreviousIsRaw ==
    IsPitchEvent => PitchPreviousNow = ev.value

\* a rule fired (rule 4, from previous 255 with offset -255) and previous
\* is the raw value 254
C8_Witness ==
    /\ IsPitchEvent /\ PitchRuleMatched
    /\ pre.prev = 255 /\ pre.off = -255 /\ ev.value = 254
    /\ PitchPreviousNow = 254

\* C9: the value returned is ((raw + offset_after) - 0.5) / 2, that is,
\* 4 * returned + 1 = 2 * (raw + offset_after)
C9_ReturnedValue ==
    IsPitchEvent =>
        /\ Len(sent) = 1
        /\ sent[1].fn = "sendEvent"
        /\ sent[1].val + 1 = 2 * (ev.value + PitchOffsetNow)

\* rule 1 fired (offset 128 -> 0 at raw 255) and 127.25 was returned
C9_Witness ==
    /\ IsPitchEvent /\ PitchRuleMatched
    /\ pre.prev = 127 /\ pre.off = 128 /\ ev.value = 255
    /\ PitchOffsetNow = 0
    /\ sent[1].val = 509

-----------------------------------------------------------------------------
(* Jog wheels: properties of the delta both dispatchers compute *)

IsJogEvent ==
    \/ ev.type = "console" /\ ev.code \in {"LEFT_JOG", "RIGHT_JOG"}
    \/ ev.type = "EV_ABS" /\ ev.code \in {"kiHerculesLeftJog", "kiHerculesRightJog"}

JogSide ==
    IF ev.code \in {"LEFT_JOG", "kiHerculesLeftJog"} THEN "Left" ELSE "Right"

\* C10: a jog event with stored previous raw value p and raw value c
\* contributes the delta c-p+256 if c-p < -200, c-p-256 if c-p > 200, and
\* c-p otherwise
C10_JogDelta ==
    (IsJogEvent /\ pre.old >= 0) =>
        LET d == ev.value - pre.old
        IN  jogDelta = << [side |-> JogSide,
                           iDiff |-> IF d < -200 THEN d + 256
                                     ELSE IF d > 200 THEN d - 256
                                     ELSE d] >>

\* the stored previous raw value of the wheel the last jog event was for
JogPreviousNow ==
    IF build = "evdev"
    THEN IF JogSide = "Left" THEN m_iJogLeft ELSE m_iJogRight
    ELSE IF JogSide = "Left" THEN m_dJogLeftOld ELSE m_dJogRightOld

\* C11: a jog event that finds no previous raw value stored for its wheel
\* (the first one the wheel receives after construction) contributes a
\* delta of 0, whatever its raw value
C11_FirstJogDeltaZero ==
    (IsJogEvent /\ pre.old < 0) =>
        \A i \in 1..Len(jogDelta) : jogDelta[i].iDiff = 0

C11_Witness ==
    /\ IsJogEvent
    /\ pre.old < 0
    /\ ev.value = 200
    /\ jogDelta = << [side |-> JogSide, iDiff |-> 0] >>
    /\ JogPreviousNow = 200

\* C12: after a jog event with raw value c, c = 0 included, the stored
\* previous raw value of that wheel is c
C12_PreviousIsRaw ==
    IsJogEvent => JogPreviousNow = ev.value

\* a jog event that found a previous raw value and contributed a delta
JogDeltaTaken ==
    /\ IsJogEvent
    /\ pre.old >= 0
    /\ Len(jogDelta) = 1

\* C13 as stated: for previous and current raw values in [0,255] the
\* corrected jog delta lies in the half-open interval (-200, 200]
C13_DeltaHalfOpen ==
    JogDeltaTaken => (-200 < jogDelta[1].iDiff /\ jogDelta[1].iDiff <= 200)

\* C13, amended: for previous and current raw values in [0,255] the
\* corrected jog delta lies in the closed interval [-200, 200]
C13_DeltaClosed ==
    JogDeltaTaken => jogDelta[1].iDiff \in -200..200

C13_Witness ==
    /\ JogDeltaTaken
    /\ ev.value - pre.old = -200
    /\ jogDelta[1].iDiff = -200

\* C14 as stated: the absolute value of the corrected delta of a single
\* jog event is at most 128
C14_DeltaAtMost128 ==
    JogDeltaTaken => Abs(jogDelta[1].iDiff) <= 128

\* C14, amended: the absolute value of the corrected delta of a single jog
\* event is at most 200
C14_DeltaAtMost200 ==
    JogDeltaTaken => Abs(jogDelta[1].iDiff) <= 200

C14_Witness ==
    /\ JogDeltaTaken
    /\ pre.old = 55
    /\ ev.value = 255
    /\ Abs(jogDelta[1].iDiff) = 200

\* C15: when |c-p| > 200 the corrected delta is the signed shortest
\* distance from p to c modulo 256 (congruent to c-p and of absolute value
\* at most 128), and for all p, c the delta from p to c is the negative of
\* the delta from c to p
C15_WrapAndAntisymmetry ==
    JogDeltaTaken =>
        LET p == pre.old
            c == ev.value
            d == jogDelta[1].iDiff
        IN  /\ Abs(c - p) > 200 => ((d - (c - p)) % 256 = 0 /\ Abs(d) <= 128)
            /\ d = -JogDiff(c, p)

C15_Witness ==
    /\ JogDeltaTaken
    /\ pre.old = 5
    /\ ev.value = 250
    /\ jogDelta[1].iDiff = -11

-----------------------------------------------------------------------------
(* Dispatch: sink writes per event, unrecognized codes *)

\* libdjconsole codes of the continuous controls (volume, EQ, crossfader)
DjcContinuousCodes ==
    {"LEFT_VOL", "RIGHT_VOL", "XFADER", "RIGHT_HIGH", "RIGHT_MID", "RIGHT_BASS",
     "LEFT_HIGH", "LEFT_MID", "LEFT_BASS"}

\* libdjconsole codes of the buttons that have a sink control
DjcButtonCodes ==
    DjcLedCodes \cup
    {"LEFT_PITCH_DOWN", "LEFT_PITCH_UP", "RIGHT_PITCH_DOWN", "RIGHT_PITCH_UP",
     "LEFT_SKIP_BACK", "LEFT_SKIP_FORWARD", "RIGHT_SKIP_BACK", "RIGHT_SKIP_FORWARD"}

\* evdev codes of the continuous controls
EvdevContinuousCodes ==
    {"kiHerculesLeftTreble", "kiHerculesLeftMiddle", "kiHerculesLeftBass",
     "kiHerculesLeftVolume", "kiHerculesRightTreble", "kiHerculesRightMiddle",
     "kiHerculesRightBass", "kiHerculesRightVolume", "kiHerculesCrossfade"}

\* evdev buttons whose press is a button edge of a sink control
EvdevPressCodes ==
    EvdevKeyCodes \ {"kiHerculesLeftBtnMasterTempo", "kiHerculesRightBtnMasterTempo",
                     "UNKNOWN"}

\* evdev buttons whose release is a button edge of a sink control
EvdevReleaseCodes ==
    EvdevPressCodes \ {"kiHerculesLeftBtnTrackNext", "kiHerculesLeftBtnTrackPrev",
                       "kiHerculesRightBtnTrackNext", "kiHerculesRightBtnTrackPrev"}

\* the last event was one of a continuous control or a button edge
ResolvesToControl ==
    \/ ev.type = "console" /\ ev.code \in DjcContinuousCodes \cup DjcButtonCodes
    \/ ev.type = "EV_ABS" /\ ev.code \in EvdevContinuousCodes
    \/ ev.type = "EV_KEY" /\ ev.value = 1 /\ ev.code \in EvdevPressCodes
    \/ ev.type = "EV_KEY" /\ ev.value = 0 /\ ev.code \in EvdevReleaseCodes

\* C16: an event that resolves to a continuous control (volume, EQ,
\* crossfader) or to a button edge, press or release, in either dispatcher,
\* produces exactly one sink write
C16_ExactlyOneWrite ==
    ResolvesToControl => Len(sent) = 1

\* libdjconsole codes that no case of consoleEvent handles
DjcUnrecognized == {"UNKNOWN"} \cup DjcLampCodes

\* C17: an event with an unrecognized control id, whatever its value (0
\* included) and however often repeated, produces no sink write and leaves
\* the jog, pitch, headphone and LED state unchanged
C17_UnrecognizedIsNoOp ==
    [][ (ev'.type = "console" /\ ev'.code \in DjcUnrecognized) =>
            /\ sent' = <<>>
            /\ UNCHANGED <<m_dJogLeftOld, m_dJogRightOld, m_iJogLeft, m_iJogRight,
                           m_iPitchLeft, m_iPitchRight, m_iPitchOffsetLeft,
                           m_iPitchOffsetRight, m_iHerculesHeadphonesSelection,
                           m_bHeadphoneLeft, m_bHeadphoneRight, leds>> ]_vars

-----------------------------------------------------------------------------
(* Frame: what an event of one control leaves alone *)

\* the event handled by the step is one of the given codes
StepIsFor(codes) == ev'.type \in {"console", "EV_ABS"} /\ ev'.code \in codes

\* C18: an event for one control changes only that control's own decode
\* state: a left-jog event leaves the right wheel's previous value and
\* accumulator, both pitch previous/offset pairs and the headphone selector
\* unchanged; a left-pitch event leaves the right pitch state and both jog
\* states unchanged; and symmetrically for the right side
C18_OtherControlsUnchanged ==
    [][ /\ StepIsFor({"LEFT_JOG", "kiHerculesLeftJog"}) =>
              UNCHANGED <<m_dJogRightOld, m_iJogRight, m_iPitchLeft, m_iPitchOffsetLeft,
                          m_iPitchRight, m_iPitchOffsetRight,
                          m_iHerculesHeadphonesSelection>>
        /\ StepIsFor({"RIGHT_JOG", "kiHerculesRightJog"}) =>
              UNCHANGED <<m_dJogLeftOld, m_iJogLeft, m_iPitchLeft, m_iPitchOffsetLeft,
                          m_iPitchRight, m_iPitchOffsetRight,
                          m_iHerculesHeadphonesSelection>>
        /\ StepIsFor({"LEFT_PITCH", "kiHerculesLeftPitch"}) =>
              UNCHANGED <<m_iPitchRight, m_iPitchOffsetRight, m_dJogLeftOld, m_iJogLeft,
                          m_dJogRightOld, m_iJogRight>>
        /\ StepIsFor({"RIGHT_PITCH", "kiHerculesRightPitch"}) =>
              UNCHANGED <<m_iPitchLeft, m_iPitchOffsetLeft, m_dJogLeftOld, m_iJogLeft,
                          m_dJogRightOld, m_iJogRight>> ]_vars

\* a right-jog event has been handled while the left wheel, and both pitch
\* knobs, hold values that events stored
C18_Witness ==
    /\ ev.type = "EV_ABS"
    /\ ev.code = "kiHerculesRightJog"
    /\ ev.value = 255
    /\ m_iJogRight = 255
    /\ m_iJogLeft = 1
    /\ m_iPitchLeft = 0
    /\ m_iPitchOffsetLeft = 127
    /\ m_iPitchRight = 255
    /\ m_iPitchOffsetRight = -128

-----------------------------------------------------------------------------
(* SetlogFeature: the history playlists *)

\* no HerculesLinux has been constructed
HerculesUnused ==
    /\ m_iHerculesHeadphonesSelection = "SPLIT"
    /\ m_bHeadphoneLeft = FALSE
    /\ m_bHeadphoneRight = FALSE
    /\ m_dJogLeftOld = -1
    /\ m_dJogRightOld = -1
    /\ m_iJogLeft = 0
    /\ m_iJogRight = 0
    /\ m_iPitchLeft = -1
    /\ m_iPitchRight = -1
    /\ m_iPitchOffsetLeft = 0
    /\ m_iPitchOffsetRight = 0
    /\ m_dLeftVolumeOld = 0
    /\ m_dRightVolumeOld = 0
    /\ leds = {}
    /\ calibLeft = 0
    /\ calibRight = 0
    /\ leftJogProcessing = FALSE
    /\ rightJogProcessing = FALSE
    /\ runPc = "idle"
    /\ build = "none"
    /\ m_iFd = -1
    /\ fillArg = 0
    /\ jogLost = 0
    /\ filterCalls = <<>>
    /\ selectorMoved = FALSE
    /\ rotaryBuf = NoHistory
    /\ sent = <<>>
    /\ jogDelta = <<>>
    /\ pre = NoPre

\* history playlists created in a run
MaxPlaylists == 2

\* tracks counted as played in a run
MaxPlays == 2

\* ids of library tracks
TrackIds == {1, 2}

\* what slotPlayingTrackChanged is called with: a null TrackPointer
\* (NullTrack), a track from an external source, whose id is not valid
\* (ExternalTrack), or a library track
NullTrack == -2

ExternalTrack == -1

PlayingTracks == {NullTrack, ExternalTrack} \cup TrackIds

\* values of [Library] HistoryTrackDuplicateDistance
RecentTrackWindows == {0, 1, 2}

\* a sequence without its element at position i
RemoveAt(seq, i) == SubSeq(seq, 1, i - 1) \o SubSeq(seq, i + 1, Len(seq))

\* position of the first element equal to x (std::find); Len + 1 if there is none
FindFirst(seq, x) ==
    IF \E i \in 1..Len(seq) : seq[i] = x
    THEN CHOOSE i \in 1..Len(seq) : seq[i] = x /\ \A j \in 1..(i - 1) : seq[j] # x
    ELSE Len(seq) + 1

\* variant of RecentTracksAfter: the id found in the list is not erased
RecentTracksAfter_NoErase(recent, id, window) ==
    LET pushed == <<id>> \o recent
    IN  SubSeq(pushed, 1, IF Len(pushed) > window THEN window ELSE Len(pushed))

\* m_recentTracks after slotPlayingTrackChanged with a valid id: erase the
\* id if std::find finds it, push_front, pop_back while longer than the window
RecentTracksAfter(recent, id, window) ==
    LET it == FindFirst(recent, id)
        erased == IF it = Len(recent) + 1 THEN recent ELSE RemoveAt(recent, it)
        pushed == <<id>> \o erased
    IN  SubSeq(pushed, 1, IF Len(pushed) > window THEN window ELSE Len(pushed))

\* the playlists without playlist id
WithoutPlaylist(tracks, id) ==
    [p \in (DOMAIN tracks) \ {id} |-> tracks[p]]

\* PlaylistDAO::appendTrackToPlaylist / PlaylistTableModel::appendTrack: the
\* track is appended n times to the playlist if there is such a playlist
AppendTrack(tracks, id, track, n) ==
    IF id \in DOMAIN tracks
    THEN [tracks EXCEPT ![id] = @ \o [i \in 1..n |-> track]]
    ELSE tracks

\* PlaylistDAO::getPreviousPlaylist: the history playlist with the next smaller id
PreviousPlaylist(tracks, id) ==
    LET smaller == {p \in DOMAIN tracks : p < id}
    IN  IF smaller = {} THEN kInvalidPlaylistId
        ELSE CHOOSE p \in smaller : \A q \in smaller : q <= p

PlaysCounted == 
    LET RECURSIVE Sum(_)
        Sum(ids) == IF ids = {} THEN 0
                    ELSE LET t == CHOOSE t \in ids : TRUE
                         IN  playCount[t] + Sum(ids \ {t})
    IN  Sum(DOMAIN playCount)

\* SetlogFeature::SetlogFeature(): the history holds the playlists that
\* deleteAllUnlockedPlaylistsWithFewerTracks() kept, none or one here, and
\* slotGetNewPlaylist() has created the current one, or has failed to
InitSetlog ==
    /\ HerculesUnused
    /\ ConfigUnused
    /\ \E old \in {<<>>, <<1, 2>>}, created \in BOOLEAN :
        LET kept == IF old = <<>> THEN <<>> ELSE <<old>>
            id == Len(kept) + 1
        IN  /\ playlistTracks = IF created THEN kept \o << <<>> >> ELSE kept
            /\ lastPlaylistId = IF created THEN id ELSE Len(kept)
            /\ m_playlistId = IF created THEN id ELSE kInvalidPlaylistId
            /\ m_lastRightClickedIndex = IF created THEN id ELSE kInvalidPlaylistId
            /\ tableModelPlaylist = IF created THEN id ELSE kInvalidPlaylistId
    /\ m_recentTracks = <<>>
    /\ playCount = [t \in TrackIds |-> 0]
    /\ ev = NoEvent

\* SetlogFeature::onRightClick / onRightClickChild: the index of the item
\* is stored; the root and the year groups have no playlist
onRightClickChild(index) ==
    /\ index \in (DOMAIN playlistTracks) \cup {kInvalidPlaylistId}
    /\ m_lastRightClickedIndex' = index
    /\ ev' = [type |-> "setlog", code |-> "onRightClickChild", value |-> index]
    /\ UNCHANGED <<m_playlistId, m_recentTracks, playlistTracks, lastPlaylistId,
                   tableModelPlaylist, playCount>>
    /\ UNCHANGED <<herculesVars, configVars>>

\* variant of slotDeletePlaylist: the test playlistId == m_playlistId is missing
slotDeletePlaylist_NoCurrentTest ==
    /\ ev' = [type |-> "setlog", code |-> "slotDeletePlaylist",
              value |-> m_lastRightClickedIndex]
    /\ IF m_lastRightClickedIndex = kInvalidPlaylistId
       THEN UNCHANGED <<playlistTracks, m_lastRightClickedIndex>>
       ELSE \E deleted \in BOOLEAN :
            IF deleted
            THEN /\ playlistTracks' = WithoutPlaylist(playlistTracks, m_lastRightClickedIndex)
                 /\ m_lastRightClickedIndex' = kInvalidPlaylistId
            ELSE UNCHANGED <<playlistTracks, m_lastRightClickedIndex>>
    /\ UNCHANGED <<m_playlistId, m_recentTracks, lastPlaylistId, tableModelPlaylist,
                   playCount>>
    /\ UNCHANGED <<herculesVars, configVars>>

\* SetlogFeature::slotDeletePlaylist().  BasePlaylistFeature::slotDeletePlaylist()
\* deletes the playlist of m_lastRightClickedIndex or leaves it (locked, or
\* the user does not confirm); the sidebar is rebuilt after a deletion.
slotDeletePlaylist ==
    /\ ev' = [type |-> "setlog", code |-> "slotDeletePlaylist",
              value |-> m_lastRightClickedIndex]
    /\ IF \/ m_lastRightClickedIndex = kInvalidPlaylistId
          \/ m_lastRightClickedIndex = m_playlistId
       THEN UNCHANGED <<playlistTracks, m_lastRightClickedIndex>>
       ELSE \E deleted \in BOOLEAN :
            IF deleted
            THEN /\ playlistTracks' = WithoutPlaylist(playlistTracks, m_lastRightClickedIndex)
                 /\ m_lastRightClickedIndex' = kInvalidPlaylistId
            ELSE UNCHANGED <<playlistTracks, m_lastRightClickedIndex>>
    /\ UNCHANGED <<m_playlistId, m_recentTracks, lastPlaylistId, tableModelPlaylist,
                   playCount>>
    /\ UNCHANGED <<herculesVars, configVars>>

\* SetlogFeature::slotGetNewPlaylist(): createPlaylist returns the id of
\* the new playlist or kInvalidPlaylistId; reloadChildModel and
\* activatePlaylist then select it
slotGetNewPlaylist ==
    /\ lastPlaylistId < MaxPlaylists
    /\ \E created \in BOOLEAN :
        LET id == IF created THEN lastPlaylistId + 1 ELSE kInvalidPlaylistId
        IN  /\ m_playlistId' = id
            /\ lastPlaylistId' = IF created THEN id ELSE lastPlaylistId
            /\ playlistTracks' =
                  IF created THEN [p \in (DOMAIN playlistTracks) \cup {id} |->
                                     IF p = id THEN <<>> ELSE playlistTracks[p]]
                  ELSE playlistTracks
            /\ m_recentTracks' = IF created THEN <<>> ELSE m_recentTracks
            /\ m_lastRightClickedIndex' = id
            /\ tableModelPlaylist' = IF created THEN id ELSE tableModelPlaylist
            /\ ev' = [type |-> "setlog", code |-> "slotGetNewPlaylist", value |-> id]
    /\ UNCHANGED playCount
    /\ UNCHANGED <<herculesVars, configVars>>

\* SetlogFeature::slotJoinWithPrevious(): the tracks of the right-clicked
\* playlist are copied to the history playlist with the next smaller id and
\* the right-clicked one is deleted; isPlaylistLocked and the result of
\* copyPlaylistTracks are the database's
slotJoinWithPrevious ==
    /\ ev' = [type |-> "setlog", code |-> "slotJoinWithPrevious",
              value |-> m_lastRightClickedIndex]
    /\ \E locked \in BOOLEAN, copied \in BOOLEAN :
        LET currentPlaylistId == m_lastRightClickedIndex
            previousPlaylistId == PreviousPlaylist(playlistTracks, currentPlaylistId)
        IN  IF \/ currentPlaylistId \notin DOMAIN playlistTracks
               \/ locked
               \/ previousPlaylistId < 0
            THEN UNCHANGED <<m_playlistId, playlistTracks, m_lastRightClickedIndex,
                             tableModelPlaylist>>
            ELSE /\ tableModelPlaylist' = previousPlaylistId
                 /\ m_playlistId' = IF currentPlaylistId = m_playlistId
                                    THEN previousPlaylistId ELSE m_playlistId
                 /\ IF copied
                    THEN /\ playlistTracks' =
                              WithoutPlaylist(
                                  [playlistTracks EXCEPT ![previousPlaylistId] =
                                       @ \o playlistTracks[currentPlaylistId]],
                                  currentPlaylistId)
                         /\ m_lastRightClickedIndex' = previousPlaylistId
                    ELSE UNCHANGED <<playlistTracks, m_lastRightClickedIndex>>
    /\ UNCHANGED <<m_recentTracks, lastPlaylistId, playCount>>
    /\ UNCHANGED <<herculesVars, configVars>>

\* SetlogFeature::slotPlayingTrackChanged(currentPlayingTrack); window is
\* the configured recentTrackWindow, hasActiveView whether the library
\* widget shows a WTrackTableView.  The play counter of a track from an
\* external source is not kept here.
slotPlayingTrackChanged(track, window, hasActiveView) ==
    /\ ev' = [type |-> "setlog", code |-> "slotPlayingTrackChanged", value |-> track,
              window |-> window]
    /\ IF track \notin TrackIds
       THEN UNCHANGED <<m_recentTracks, playlistTracks, playCount>>
       ELSE LET track_played_recently == FindFirst(m_recentTracks, track) <= Len(m_recentTracks)
            IN  /\ m_recentTracks' = RecentTracksAfter(m_recentTracks, track, window)
                /\ IF track_played_recently
                   THEN UNCHANGED <<playlistTracks, playCount>>
                   ELSE /\ PlaysCounted < MaxPlays
                        /\ playCount' = [playCount EXCEPT ![track] = @ + 1]
                        /\ playlistTracks' =
                              IF tableModelPlaylist = m_playlistId
                              THEN AppendTrack(playlistTracks, tableModelPlaylist, track, 1)
                              ELSE AppendTrack(playlistTracks, m_playlistId, track, 1)
    /\ UNCHANGED <<m_playlistId, m_lastRightClickedIndex, lastPlaylistId, tableModelPlaylist>>
    /\ UNCHANGED <<herculesVars, configVars>>

NextSetlog ==
    \/ \E index \in (1..MaxPlaylists) \cup {kInvalidPlaylistId} : onRightClickChild(index)
    \/ slotDeletePlaylist
    \/ slotGetNewPlaylist
    \/ slotJoinWithPrevious
    \/ \E track \in PlayingTracks, window \in RecentTrackWindows, hasActiveView \in BOOLEAN :
          slotPlayingTrackChanged(track, window, hasActiveView)

SpecSetlog == InitSetlog /\ [][NextSetlog]_vars

-----------------------------------------------------------------------------
(* ConfigObject: save *)

\* texts of a configuration: what save() writes for some m_values
ConfigTexts == {"A", "B", "C"}

\* the statement of save() that fails, if one does
SaveFailures == {"open", "write", "close", "remove", "rename", "none"}

\* ConfigObject::ConfigObject(file): reopen() parses the file if it can be
\* read, else m_values stays empty.  An earlier run may have left a
\* temporary file behind.
InitConfig ==
    /\ HerculesUnused
    /\ SetlogUnused
    /\ configFile \in ConfigTexts \cup {"absent"}
    /\ m_values = (IF configFile = "absent" THEN "empty" ELSE configFile)
    /\ tmpFile \in {"absent", "partial"}
    /\ ev = NoEvent

\* ConfigObject::set(k, v)
set(text) ==
    /\ m_values' = text
    /\ ev' = [type |-> "config", code |-> "set", value |-> 0]
    /\ UNCHANGED <<configFile, tmpFile>>
    /\ UNCHANGED <<herculesVars, setlogVars>>

\* ConfigObject::save(): the values are written to m_filename + ".tmp", the
\* old file is removed if it exists, the temporary file is renamed to
\* m_filename.  failed is the statement whose result makes save() return
\* false; ev.value is the value returned (1 true, 0 false).
save(failed) ==
    /\ failed = "remove" => configFile # "absent"
    /\ ev' = [type |-> "config", code |-> "save",
              value |-> IF failed = "none" THEN 1 ELSE 0, failed |-> failed]
    /\ tmpFile' = CASE failed = "open" -> tmpFile
                    [] failed \in {"write", "close"} -> "partial"
                    [] failed \in {"remove", "rename"} -> m_values
                    [] failed = "none" -> "absent"
    /\ configFile' = CASE failed \in {"open", "write", "close", "remove"} -> configFile
                       [] failed = "rename" -> "absent"
                       [] failed = "none" -> m_values
    /\ UNCHANGED m_values
    /\ UNCHANGED <<herculesVars, setlogVars>>

NextConfig ==
    \/ \E text \in ConfigTexts : set(text)
    \/ \E failed \in SaveFailures : save(failed)

SpecConfig == InitConfig /\ [][NextConfig]_vars

\* the step is a call of save() that returns b (1 true, 0 false)
SaveReturns(b) ==
    /\ ev'.type = "config"
    /\ ev'.code = "save"
    /\ ev'.value = b

\* C29: when save() returns false, a configuration file that was at
\* m_filename before the call is still there with its old contents; when
\* save() returns true, the temporary file has been renamed onto m_filename,
\* which then holds the values saved
C29_FailedSaveKeepsOldFile ==
    [][ /\ (SaveReturns(0) /\ configFile # "absent") => configFile' = configFile
        /\ SaveReturns(1) => (configFile' = m_values /\ tmpFile' = "absent")
      ]_vars

-----------------------------------------------------------------------------
(* The loop at rest *)

\* the run loop of either build with the left wheel: the evdev loop reads a
\* left jog event or times out; the libdjconsole loop ticks while the
\* callback thread delivers left jog events between its statements
NextLoop ==
    \/ opendevEvdev
    \/ opendevDjc
    \/ RunInit
    \/ getNextEventTimeout
    \/ \E value \in FrameRaws :
        \/ getNextEventAbs("kiHerculesLeftJog", value)
        \/ /\ consoleEvent("LEFT_JOG", value)
           /\ Abs(m_iJogLeft') <= MaxFrameAccum
    \/ RunFillLeft
    \/ /\ RunClearLeft
       /\ Abs(jogLost') <= MaxFrameAccum
    \/ RunIdleLeft
    \/ RunFilterLeft

SpecLoop == InitBoth /\ [][NextLoop]_vars

\* this step is a loop iteration that saw no jog motion: the poll of the
\* evdev build timed out, or the libdjconsole loop tested both accumulators
\* as 0
NoJogMotion ==
    \/ build = "evdev" /\ ev'.type = "timeout"
    \/ /\ build = "libdjconsole"
       /\ runPc = "idleTested" /\ runPc' = "loop"
       /\ m_iJogRight = 0

ZeroFilterCalls ==
    << RotaryCall("Left", "filter", 0), RotaryCall("Right", "filter", 0) >>

\* C22: an iteration of the run loop that sees no jog motion evaluates each
\* of the two jog filters exactly once, with input 0
C22_IdleFiltersZeroInput ==
    [][ NoJogMotion => filterCalls' = ZeroFilterCalls ]_vars

-----------------------------------------------------------------------------
(* Values of the continuous controls, libdjconsole build *)

DjcVolumeCodes == {"LEFT_VOL", "RIGHT_VOL"}

DjcEqCodes == {"RIGHT_HIGH", "RIGHT_MID", "RIGHT_BASS", "LEFT_HIGH", "LEFT_MID", "LEFT_BASS"}

\* the last step dispatched a libdjconsole event of one of the codes with a
\* raw value other than 0
DjcDispatched(codes) ==
    /\ build = "libdjconsole"
    /\ ev.type = "console"
    /\ ev.code \in codes
    /\ ev.value # 0

\* C23: a libdjconsole volume or EQ event with raw value r writes r/2 as a
\* real (127.5 for r = 255), a crossfader event writes (r+1)/2; written
\* values are held times 4
C23_HalfOfRaw ==
    /\ DjcDispatched(DjcVolumeCodes \cup DjcEqCodes) =>
          Len(sent) = 1 /\ sent[1].val = 2 * ev.value
    /\ DjcDispatched({"XFADER"}) =>
          Len(sent) = 1 /\ sent[1].val = 2 * (ev.value + 1)

-----------------------------------------------------------------------------
(* Button edges *)

\* both dispatchers with the faders, knobs and buttons that keep no decode
\* state
NextDispatch == NextDispatchDjc \/ NextDispatchEvdev

SpecDispatch == InitBoth /\ [][NextDispatch]_vars

\* pitch-bend, cue and play buttons of either build
PressReleaseCodes ==
    {"LEFT_PITCH_DOWN", "LEFT_PITCH_UP", "RIGHT_PITCH_DOWN", "RIGHT_PITCH_UP",
     "LEFT_CUE", "RIGHT_CUE", "LEFT_PLAY", "RIGHT_PLAY",
     "kiHerculesLeftBtnPitchBendMinus", "kiHerculesLeftBtnPitchBendPlus",
     "kiHerculesRightBtnPitchBendMinus", "kiHerculesRightBtnPitchBendPlus",
     "kiHerculesLeftBtnCue", "kiHerculesRightBtnCue",
     "kiHerculesLeftBtnPlay", "kiHerculesRightBtnPlay"}

\* track-skip buttons of either build
TrackSkipCodes ==
    {"LEFT_SKIP_BACK", "LEFT_SKIP_FORWARD", "RIGHT_SKIP_BACK", "RIGHT_SKIP_FORWARD",
     "kiHerculesLeftBtnTrackNext", "kiHerculesLeftBtnTrackPrev",
     "kiHerculesRightBtnTrackNext", "kiHerculesRightBtnTrackPrev"}

\* the last event was a button of one of the codes whose value became v
ButtonBecame(codes, v) ==
    /\ ev.type \in {"console", "EV_KEY"}
    /\ ev.code \in codes
    /\ ev.value = v

\* the last event wrote one button edge b (1 press, 0 release) and nothing else
EmitsEdge(b) ==
    /\ Len(sent) = 1
    /\ sent[1].fn = "sendButtonEvent"
    /\ sent[1].val = b

\* C24: pitch-bend, cue and play buttons emit a press edge when their value
\* becomes 1 and a release edge when it becomes 0; track-skip buttons emit
\* the press edge and nothing on release
C24_ButtonEdges ==
    /\ ButtonBecame(PressReleaseCodes, 1) => EmitsEdge(1)
    /\ ButtonBecame(PressReleaseCodes, 0) => EmitsEdge(0)
    /\ ButtonBecame(TrackSkipCodes, 1) => EmitsEdge(1)
    /\ ButtonBecame(TrackSkipCodes, 0) => sent = <<>>

-----------------------------------------------------------------------------
(* Jog sensitivity mode, libdjconsole build *)

DjcModeButtons == {"LEFT_1", "LEFT_2", "LEFT_3", "RIGHT_1", "RIGHT_2", "RIGHT_3"}

\* the mode buttons, a button with a LED of its own, and the ids of the
\* mode lamps, pressed and released in any order while run() ticks
NextMode ==
    \/ /\ runPc = "idle"
       /\ opendevDjc
    \/ RunInit
    \/ RunTick
    \/ \E first \in DjcModeButtons \cup DjcLampCodes \cup {"LEFT_PLAY"}, second \in {0, 1} :
          consoleEvent(first, second)

SpecMode == InitDjc /\ [][NextMode]_vars

ModeLamps(side) ==
    IF side = "LEFT" THEN {"LEFT_FX", "LEFT_FX_CUE", "LEFT_LOOP"}
    ELSE {"RIGHT_FX", "RIGHT_FX_CUE", "RIGHT_LOOP"}

\* divisor and lit mode lamps of mode button n of a side
ModeOf(n, side) ==
    CASE n = 1 -> <<512, {IF side = "LEFT" THEN "LEFT_FX" ELSE "RIGHT_FX"}>>
      [] n = 2 -> <<256, {IF side = "LEFT" THEN "LEFT_FX_CUE" ELSE "RIGHT_FX_CUE"}>>
      [] n = 3 -> <<64, {IF side = "LEFT" THEN "LEFT_LOOP" ELSE "RIGHT_LOOP"}>>

\* divisor c and the mode lamps of a side lit among l
ModeConfig(c, l, side) == <<c, l \cap ModeLamps(side)>>

ModeButton(n, side) ==
    CASE n = 1 -> IF side = "LEFT" THEN "LEFT_1" ELSE "RIGHT_1"
      [] n = 2 -> IF side = "LEFT" THEN "LEFT_2" ELSE "RIGHT_2"
      [] n = 3 -> IF side = "LEFT" THEN "LEFT_3" ELSE "RIGHT_3"

\* run() is past its prologue
FiltersInitialised == runPc \notin {"idle", "start"}

\* the step is a press of a mode button of the side
ModePress(side) ==
    /\ ev'.type = "console"
    /\ ev'.value # 0
    /\ \E n \in 1..3 : ev'.code = ModeButton(n, side)

\* C25: once run() has initialised the filters, the divisor and the mode
\* lamps of each side are those of the most recent mode-button press on
\* that side (button 3 initially): a press of button n sets them to the
\* configuration of n, and no other step, a press on the other side
\* included, changes them
C25_ModeFollowsLastPress ==
    /\ [](FiltersInitialised =>
            /\ ModeConfig(calibLeft, leds, "LEFT") \in {ModeOf(n, "LEFT") : n \in 1..3}
            /\ ModeConfig(calibRight, leds, "RIGHT") \in {ModeOf(n, "RIGHT") : n \in 1..3})
    /\ [][ FiltersInitialised =>
            /\ \A n \in 1..3 :
                 /\ (ModePress("LEFT") /\ ev'.code = ModeButton(n, "LEFT")) =>
                       ModeConfig(calibLeft', leds', "LEFT") = ModeOf(n, "LEFT")
                 /\ (ModePress("RIGHT") /\ ev'.code = ModeButton(n, "RIGHT")) =>
                       ModeConfig(calibRight', leds', "RIGHT") = ModeOf(n, "RIGHT")
            /\ ~ModePress("LEFT") =>
                  ModeConfig(calibLeft', leds', "LEFT") = ModeConfig(calibLeft, leds, "LEFT")
            /\ ~ModePress("RIGHT") =>
                  ModeConfig(calibRight', leds', "RIGHT") = ModeConfig(calibRight, leds, "RIGHT")
       ]_vars

-----------------------------------------------------------------------------
(* Headphone enables and the monitor buttons *)

\* the two enables are the configuration of the selector state
EnablesMatchSelector ==
    <<m_bHeadphoneLeft, m_bHeadphoneRight>> = SelectorConfig(m_iHerculesHeadphonesSelection)

MonitorPress(side) ==
    /\ ev'.type = "console"
    /\ ev'.value # 0
    /\ ev'.code = (IF side = "LEFT" THEN "LEFT_MONITOR" ELSE "RIGHT_MONITOR")

-----------------------------------------------------------------------------
(* SetlogFeature: the current history playlist and the recent tracks *)

\* C26: after any sequence of delete-playlist, join-with-previous and
\* start-new-playlist operations m_playlistId is not the id of a playlist
\* that has been deleted: it is kInvalidPlaylistId or the id of a playlist
\* in the table (ids are not handed out twice)
C26_CurrentPlaylistExists ==
    \/ m_playlistId = kInvalidPlaylistId
    \/ m_playlistId \in DOMAIN playlistTracks

\* the current playlist 2 was joined with playlist 1: 2 is deleted and 1 is
\* the current one
C26_Witness ==
    /\ ev.type = "setlog" /\ ev.code = "slotJoinWithPrevious" /\ ev.value = 2
    /\ 2 \notin DOMAIN playlistTracks
    /\ lastPlaylistId = 2
    /\ m_playlistId = 1

\* the step is a call of slotPlayingTrackChanged with a library track
PlayingTrackChanged ==
    /\ ev'.type = "setlog"
    /\ ev'.code = "slotPlayingTrackChanged"
    /\ ev'.value \in TrackIds

InRecentTracks(id) == \E i \in 1..Len(m_recentTracks) : m_recentTracks[i] = id

\* C27: a track that is in m_recentTracks when it becomes the playing
\* track is neither play-counted nor appended to any playlist; a track with
\* a valid id that is not in m_recentTracks is play-counted once and
\* appended exactly once to the current history playlist m_playlistId, and
\* to no other
C27_CountedAndAppendedOnce ==
    [][ PlayingTrackChanged =>
          IF InRecentTracks(ev'.value)
          THEN UNCHANGED <<playCount, playlistTracks>>
          ELSE /\ playCount' = [playCount EXCEPT ![ev'.value] = @ + 1]
               /\ m_playlistId \in DOMAIN playlistTracks
               /\ playlistTracks' =
                     [playlistTracks EXCEPT ![m_playlistId] = Append(@, ev'.value)]
      ]_vars

\* C28: after a call of slotPlayingTrackChanged with a valid track id and
\* a window w >= 1, m_recentTracks has no id twice, at most w ids, and the
\* track just played at its front; after a slotGetNewPlaylist that created
\* a playlist it is empty
C28_RecentTracksWindow ==
    /\ (/\ ev.type = "setlog"
        /\ ev.code = "slotPlayingTrackChanged"
        /\ ev.value \in TrackIds
        /\ ev.window >= 1) =>
          /\ \A i, j \in 1..Len(m_recentTracks) :
                m_recentTracks[i] = m_recentTracks[j] => i = j
          /\ Len(m_recentTracks) <= ev.window
          /\ Len(m_recentTracks) >= 1
          /\ m_recentTracks[1] = ev.value
    /\ (/\ ev.type = "setlog"
        /\ ev.code = "slotGetNewPlaylist"
        /\ ev.value # kInvalidPlaylistId) => m_recentTracks = <<>>

\* track 1 was played again with window 2 while the list was <<2, 1>>: it
\* moved to the front
C28_Witness ==
    /\ ev.type = "setlog" /\ ev.code = "slotPlayingTrackChanged"
    /\ ev.value = 1 /\ ev.window = 2
    /\ m_recentTracks = <<1, 2>>
    /\ playCount[1] = 1 /\ playCount[2] = 1

-----------------------------------------------------------------------------
(* Pitch knobs turned one detent at a time *)

\* the last pitch event was not the first of its knob
LaterPitchEvent == IsPitchEvent /\ pre.off # kiPitchUninitialized

\* the raw value of the last pitch event is d detents from the previous one
PitchStepOf(d) == ev.value = (pre.prev + d) % (MaxRaw + 1)

\* C31: when every raw value after the first is at most one detent from the
\* one before it (SpecPitchSteps), previous+offset is in [0,255] after every
\* pitch event and the value returned is in [-0.25, 127.25]
C31_SlowKnobInRange ==
    IsPitchEvent =>
        /\ PitchPreviousNow + PitchOffsetNow \in 0..MaxRaw
        /\ -1 <= sent[1].val /\ sent[1].val <= 509
        /\ LaterPitchEvent => \E d \in {-1, 0, 1} : PitchStepOf(d)

\* the knob was at previous+offset = 255 and went one detent up: the first
\* rule holds the sum at 255
C31_Witness ==
    /\ LaterPitchEvent /\ PitchStepOf(1)
    /\ pre.prev + pre.off = 255 /\ pre.prev = 200
    /\ PitchPreviousNow + PitchOffsetNow = 255
    /\ sent[1].val = 509

\* C32: a pitch event one detent above the previous raw value (255 -> 0
\* included) returns 0.5 more than the event before it unless previous+offset
\* was 255, and one detent below (0 -> 255 included) 0.5 less unless
\* previous+offset was 0
C32_StepChangesOutputByHalf ==
    LaterPitchEvent =>
        /\ (PitchStepOf(1) /\ pre.prev + pre.off # 255) =>
                sent[1].val = PitchReturn(pre.prev, pre.off) + 2
        /\ (PitchStepOf(-1) /\ pre.prev + pre.off # 0) =>
                sent[1].val = PitchReturn(pre.prev, pre.off) - 2

\* every two tests of the chain that hold for raw value r, previous value
\* p and stored offset o assign the same offset
PitchRulesAgree(r, p, o) ==
    \A i \in 1..4 :
        PitchRuleHolds(i, r, p, o) =>
            \A j \in 1..4 :
                PitchRuleHolds(j, r, p, o) =>
                    PitchRuleOffset(i, r, p, o) = PitchRuleOffset(j, r, p, o)

\* C33: whenever the conditions of two rules hold for the same (previous,
\* offset, raw) both rules give the same offset, so the offset a pitch event
\* stores is the one of every rule whose condition holds, in whatever order
\* the four are tested.  The first conjunct takes the members the last event
\* left with every raw value the next event of that knob can carry, the
\* second the event that was processed last.
C33_RuleOrderIrrelevant ==
    /\ IsPitchEvent =>
            \A r \in 0..MaxRaw :
                PitchRulesAgree(r, PitchPreviousNow, PitchOffsetNow)
    /\ IsPitchEvent =>
            \A i \in 1..4 :
                PitchRuleHolds(i, ev.value, pre.prev, PitchOffsetRead) =>
                    PitchOffsetNow = PitchRuleOffset(i, ev.value, pre.prev, PitchOffsetRead)

\* the conditions of rules 2 and 4 both held (255 -> 0 with offset -255) and
\* the offset stored is the 0 both assign
C33_Witness ==
    /\ IsPitchEvent
    /\ pre.prev = 255 /\ pre.off = -255 /\ ev.value = 0
    /\ PitchRuleHolds(2, ev.value, pre.prev, pre.off)
    /\ PitchRuleHolds(4, ev.value, pre.prev, pre.off)
    /\ PitchOffsetNow = 0

\* C34: the offset a pitch event leaves is at least -255, and an offset that
\* is not the -9999 sentinel is at least -255 after every step, so it is
\* never the sentinel again: offset = 127 - raw is assigned by the first
\* event of a knob only
C34_OffsetInitialisedOnce ==
    /\ [](IsPitchEvent => PitchOffsetNow >= -255)
    /\ [][
            /\ (m_iPitchOffsetLeft # kiPitchUninitialized) =>
                    (m_iPitchOffsetLeft' >= -255)
            /\ (m_iPitchOffsetRight # kiPitchUninitialized) =>
                    (m_iPitchOffsetRight' >= -255)
          ]_vars

\* a later event of a knob took the offset to -255, the least value there is
\* (rule 3 from offset 0)
C34_Witness ==
    /\ LaterPitchEvent
    /\ pre.prev = 0 /\ pre.off = 0 /\ ev.value = 255
    /\ PitchOffsetNow = -255

-----------------------------------------------------------------------------
(* Events with value 0, libdjconsole build *)

\* C35: a console event with value 0, whatever its control id, writes
\* nothing to the sink and changes none of the jog, pitch and headphone
\* members (nor anything else of the driver); all it does is clear the LED
\* bit numbered by its control id
C35_ZeroValueClearsLedOnly ==
    [][ (ev'.type = "console" /\ ev'.value = 0) =>
            /\ sent' = <<>>
            /\ leds' = leds \ {ev'.code}
            /\ UNCHANGED <<m_dJogLeftOld, m_dJogRightOld, m_iJogLeft, m_iJogRight,
                           m_iPitchLeft, m_iPitchRight, m_iPitchOffsetLeft,
                           m_iPitchOffsetRight, m_iHerculesHeadphonesSelection,
                           m_bHeadphoneLeft, m_bHeadphoneRight,
                           calibLeft, calibRight, m_dLeftVolumeOld,
                           m_dRightVolumeOld, leftJogProcessing,
                           rightJogProcessing, runPc, m_iFd>> ]_vars

\* LEFT_MONITOR was pressed once (headphone boolean set, LED lit) and the
\* wheel turned; the release of LEFT_MONITOR, value 0, put the LED out and
\* left the boolean and the accumulator
C35_Witness ==
    /\ IsConsoleEvent("LEFT_MONITOR", 0)
    /\ m_bHeadphoneLeft
    /\ m_iJogLeft # 0
    /\ "LEFT_MONITOR" \notin leds
    /\ "RIGHT_FX_CUE" \in leds
    /\ sent = <<>>

-----------------------------------------------------------------------------
(* Jog writes of the loop of run(), libdjconsole build *)

\* positions in ws of the writes to the jog control of a side
JogWritesOf(side, ws) ==
    {i \in 1..Len(ws) : ws[i].ctl = (IF side = "Left" THEN "m_pControlObjectLeftJog"
                                     ELSE "m_pControlObjectRightJog")}

\* C36: in the loop of run(), from the iteration that drains a nonzero
\* accumulator on, every iteration writes the jog control of that side once,
\* up to and including the first iteration whose filter output is 0: that
\* one writes the value 0 once and ends the sequence.  After it no iteration
\* writes the jog control of that side as long as its accumulator is read
\* as 0.
C36_DrainThenQuiet ==
    [][ (ev'.type = "run" /\ ev'.code = "tick") =>
            \A side \in {"Left", "Right"} :
                LET acc == IF side = "Left" THEN m_iJogLeft ELSE m_iJogRight
                    running == IF side = "Left" THEN leftJogProcessing
                               ELSE rightJogProcessing
                    runningAfter == IF side = "Left" THEN leftJogProcessing'
                                    ELSE rightJogProcessing'
                    w == JogWritesOf(side, sent')
                IN  IF acc # 0 \/ running
                    THEN /\ Cardinality(w) = 1
                         /\ \A i \in w : sent'[i].val \in RotaryReturn(rotaryBuf'[side])
                         /\ \A i \in w : runningAfter <=> (sent'[i].val # 0)
                    ELSE /\ w = {}
                         /\ ~runningAfter
      ]_vars

\* the left wheel was turned and drained; the iteration that found the
\* filter output 0 wrote the value 0 to the left jog control, once, and
\* ended the sequence
C36_Witness ==
    /\ ev.type = "run" /\ ev.code = "tick"
    /\ m_dJogLeftOld >= 0
    /\ sent = <<sendEvent(0, "m_pControlObjectLeftJog")>>
    /\ ~leftJogProcessing
    /\ rotaryBuf.Left = RotaryDrained

-----------------------------------------------------------------------------
(* Jog writes at a poll timeout, evdev build *)

\* C37: with both wheels at rest (SpecVolume: no jog event, every filter
\* output 0), no poll timeout writes a jog control, whatever volume events
\* arrive in between, and no volume event writes one
C37_NoJogWriteAtRest ==
    [][ (ev'.type = "timeout" \/ ev'.type = "EV_ABS") =>
            /\ JogWritesOf("Left", sent') = {}
            /\ JogWritesOf("Right", sent') = {} ]_vars

-----------------------------------------------------------------------------
(* Threads: the jog accumulator, closedev *)

\* C19: under any interleaving of the consoleEvent callback and run(),
\* every delta added to the accumulator is handed to the filter exactly
\* once: the values passed to fillBuffer sum to the deltas accumulated, so
\* nothing is overwritten that fillBuffer was not given
C19_NoDeltaLost ==
    jogLost = 0

\* closedev() has been called on an open driver and the device has not
\* been opened again (libdjconsole: closedev() was the last call)
Closed ==
    \/ build = "evdev" /\ m_iFd = -1 /\ runPc = "loop"
    \/ build = "libdjconsole" /\ runPc = "loop" /\ ev.type = "closedev"

\* C20: after closedev() on an open driver run() eventually terminates,
\* and once it has, no further sink write is emitted
C20_RunStopsAfterClose ==
    /\ [](Closed => <>(runPc = "done"))
    /\ [][runPc = "done" => sent' = <<>>]_vars

-----------------------------------------------------------------------------
(* Reconnect *)

\* the step is an opendev() that follows a closedev() on a driver that had
\* been opened, and (evdev) finds the device again
Reconnect ==
    /\ ev.type = "closedev"
    /\ ev'.type = "opendev"
    /\ IF build = "evdev" THEN runPc = "loop" /\ m_iFd' > 0 ELSE runPc # "idle"

\* C21: after closedev() followed by opendev() on the same driver object
\* all control state is uninitialized again: each wheel's previous value is
\* 'none' and each pitch state is the one the constructor leaves (offset
\* -9999 in the evdev build), so that the first jog event yields delta 0 and
\* the first pitch event re-anchors the offset
C21_ReconnectResets ==
    [][ Reconnect =>
          IF build = "evdev"
          THEN /\ m_iJogLeft' = -1
               /\ m_iJogRight' = -1
               /\ m_iPitchOffsetLeft' = kiPitchUninitialized
               /\ m_iPitchOffsetRight' = kiPitchUninitialized
          ELSE /\ m_dJogLeftOld' = -1
               /\ m_dJogRightOld' = -1
               /\ m_iPitchLeft' = -1
               /\ m_iPitchRight' = -1 ]_vars

=============================================================================
